---- MODULE Spec2Model ----
(***************************************************************************)
(* netctrl-server: agent lifecycle, heartbeat/instruction protocol and the *)
(* liveness monitor, over the Persistence contract.                        *)
(*                                                                         *)
(* Every storage call is one atomic step (the in-memory backend holds its  *)
(* mutex for the whole call, the PostgreSQL backend runs one statement).   *)
(* A service handler is a sequence of such steps; between two of them any  *)
(* other handler, the monitor and the clock may move.                      *)
(*                                                                         *)
(* Records are values: a handler works on the snapshot its read returned   *)
(* and the store changes only at a storage call.  (The in-memory backend   *)
(* hands out the stored pointer; its handlers are specified one at a time, *)
(* where the two coincide.)                                                *)
(***************************************************************************)
EXTENDS Integers, Sequences, FiniteSets, TLC

VARIABLES backend, clusters, uuids, agents, now, calls, mon

vars == <<backend, clusters, uuids, agents, now, calls, mon>>

(***************************************************************************)
(* Program constants                                                       *)
(***************************************************************************)
PollIntervalSeconds == 60
InactiveThresholdMultiplier == 3
inactiveThreshold == PollIntervalSeconds * InactiveThresholdMultiplier

AGENT_STATUS_UNSPECIFIED == "AGENT_STATUS_UNSPECIFIED"
AGENT_STATUS_ACTIVE == "AGENT_STATUS_ACTIVE"
AGENT_STATUS_INACTIVE == "AGENT_STATUS_INACTIVE"
AgentStatus == {AGENT_STATUS_UNSPECIFIED, AGENT_STATUS_ACTIVE, AGENT_STATUS_INACTIVE}

INSTRUCTION_TYPE_UNSPECIFIED == "INSTRUCTION_TYPE_UNSPECIFIED"
INSTRUCTION_TYPE_COLLECT_HARDWARE == "INSTRUCTION_TYPE_COLLECT_HARDWARE"
INSTRUCTION_TYPE_HEALTH_CHECK == "INSTRUCTION_TYPE_HEALTH_CHECK"

(***************************************************************************)
(* Bounds of the model                                                     *)
(***************************************************************************)
MaxJitter == 2

\* The instants at which the clock is read: the start, and the seconds from
\* one before the threshold on, so that ages of exactly 179, 180 and 181
\* seconds occur.
Instants == {0} \cup {inactiveThreshold - 1 + j : j \in 0..MaxJitter}

Backends == {"memory", "postgres"}
AgentIds == {"a1", "a2"}
ClusterIds == {"c1", "c2"}
Calls == {"k1", "k2"}
NicLists == {<<>>, <<"mlx5_0">>}

\* nil *timestamppb.Timestamp
NoTime == -1

\* The zero value of v1.Agent
NilAgent ==
  [id |-> "", cluster_id |-> "", hostname |-> "", ip_address |-> "", version |-> "",
   status |-> AGENT_STATUS_UNSPECIFIED, last_seen |-> NoTime, created_at |-> NoTime,
   updated_at |-> NoTime, hardware_collected |-> FALSE, network_interfaces |-> <<>>]

\* RegisterAgentRequest values offered by callers
RegisterRequests ==
  {[id |-> i, cluster_id |-> c, hostname |-> m[1], ip_address |-> m[2], version |-> m[3]] :
     i \in AgentIds \cup {""}, c \in ClusterIds \cup {""},
     m \in {<<"node1", "10.0.0.1", "1.0.0">>, <<"node2", "10.0.0.2", "1.1.0">>}}

\* GetInstructionsRequest values
PollRequests == {[agent_id |-> i] : i \in AgentIds \cup {""}}

\* An absent (nil) message is the empty sequence, a present one a 1-tuple
Nil == <<>>
Some(x) == <<x>>

\* InstructionResult values: the type tag with a hardware payload, a health
\* payload, or neither
InstructionResults ==
  {[instruction_type |-> INSTRUCTION_TYPE_COLLECT_HARDWARE,
    hardware_collection |-> Some([network_interfaces |-> n]), health_check |-> Nil] : n \in NicLists}
  \cup
  {[instruction_type |-> t, hardware_collection |-> Nil, health_check |-> h] :
     t \in {INSTRUCTION_TYPE_COLLECT_HARDWARE, INSTRUCTION_TYPE_HEALTH_CHECK, INSTRUCTION_TYPE_UNSPECIFIED},
     h \in {Nil, Some([healthy |-> TRUE])}}

\* SubmitInstructionResultRequest values
SubmitRequests ==
  {[agent_id |-> i, instruction_id |-> n, result |-> r] :
     i \in AgentIds \cup {""}, n \in {"", "instr-1"},
     r \in {Nil} \cup {Some(x) : x \in InstructionResults}}

\* A call slot: the handler it runs, where the handler stands, the agent id
\* its request names, the request, its local agent, its local now and the
\* response it returned
NoResp ==
  [code |-> "", msg |-> "", instructions |-> <<>>, server_time |-> NoTime, success |-> FALSE,
   agents |-> <<>>]
IdleCall ==
  [op |-> "", pc |-> "idle", id |-> "", req |-> <<>>, agent |-> NilAgent, now |-> NoTime, resp |-> NoResp]

(***************************************************************************)
(* Persistence: the in-memory backend                                      *)
(***************************************************************************)
Put(ag, a) == [x \in DOMAIN ag \cup {a.id} |-> IF x = a.id THEN a ELSE ag[x]]
Remove(ag, ids) == [x \in DOMAIN ag \ ids |-> ag[x]]

\* As MemoryCreateAgent, storing over a record that exists
MemoryCreateAgent_Overwrites(ag, a) ==
  IF a.id = "" THEN [agents |-> ag, err |-> "agent ID is required"]
  ELSE [agents |-> Put(ag, a), err |-> ""]

MemoryCreateAgent(ag, a) ==
  IF a.id = "" THEN [agents |-> ag, err |-> "agent ID is required"]
  ELSE IF a.id \in DOMAIN ag THEN [agents |-> ag, err |-> "agent already exists"]
  ELSE [agents |-> Put(ag, a), err |-> ""]

MemoryUpdateAgent(ag, a) ==
  IF a.id \notin DOMAIN ag THEN [agents |-> ag, err |-> "agent not found"]
  ELSE [agents |-> Put(ag, a), err |-> ""]

MemoryDeleteAgent(ag, id) ==
  IF id \notin DOMAIN ag THEN [agents |-> ag, err |-> "agent not found"]
  ELSE [agents |-> Remove(ag, {id}), err |-> ""]

\* As MemoryDeleteCluster, without the loop over the agents
MemoryDeleteCluster_NoCascade(cl, ag, id) ==
  IF id \notin cl THEN [clusters |-> cl, agents |-> ag, err |-> "cluster not found"]
  ELSE [clusters |-> cl \ {id}, agents |-> ag, err |-> ""]

MemoryDeleteCluster(cl, ag, id) ==
  IF id \notin cl THEN [clusters |-> cl, agents |-> ag, err |-> "cluster not found"]
  ELSE [clusters |-> cl \ {id},
        agents |-> Remove(ag, {x \in DOMAIN ag : ag[x].cluster_id = id}),
        err |-> ""]

(***************************************************************************)
(* Persistence: the PostgreSQL backend                                     *)
(***************************************************************************)
\* AgentStatus.String() is the enum name; the column holds that text
parseAgentStatus(str) ==
  CASE str = "AGENT_STATUS_ACTIVE" -> AGENT_STATUS_ACTIVE
    [] str = "AGENT_STATUS_INACTIVE" -> AGENT_STATUS_INACTIVE
    [] OTHER -> AGENT_STATUS_UNSPECIFIED

\* INSERT INTO agents: primary key on id, foreign key on cluster_id
PostgresCreateAgent(cl, ag, a) ==
  IF a.id \in DOMAIN ag \/ a.cluster_id \notin cl
  THEN [agents |-> ag, err |-> "failed to create agent"]
  ELSE [agents |-> Put(ag, [a EXCEPT !.status = parseAgentStatus(a.status)]), err |-> ""]

\* UPDATE agents SET ... WHERE id = $1: created_at is not in the SET list,
\* the BEFORE UPDATE trigger overwrites updated_at with NOW()
PostgresUpdateAgent(cl, ag, a, t) ==
  IF a.id \notin DOMAIN ag THEN [agents |-> ag, err |-> "agent not found"]
  ELSE IF a.cluster_id \notin cl THEN [agents |-> ag, err |-> "failed to update agent"]
  ELSE [agents |-> Put(ag, [a EXCEPT !.status = parseAgentStatus(a.status),
                                     !.created_at = ag[a.id].created_at,
                                     !.updated_at = t]),
        err |-> ""]

PostgresDeleteAgent(ag, id) ==
  IF id \notin DOMAIN ag THEN [agents |-> ag, err |-> "agent not found"]
  ELSE [agents |-> Remove(ag, {id}), err |-> ""]

\* DELETE FROM clusters WHERE id = $1, with ON DELETE CASCADE on agents
PostgresDeleteCluster(cl, ag, id) ==
  IF id \notin cl THEN [clusters |-> cl, agents |-> ag, err |-> "cluster not found"]
  ELSE [clusters |-> cl \ {id},
        agents |-> Remove(ag, {x \in DOMAIN ag : ag[x].cluster_id = id}),
        err |-> ""]

(***************************************************************************)
(* Persistence: the contract the services are written against              *)
(***************************************************************************)
ClusterExists(cl, id) == id \in cl

CreateAgent(b, cl, ag, a) ==
  IF b = "memory" THEN MemoryCreateAgent(ag, a) ELSE PostgresCreateAgent(cl, ag, a)

\* As UpdateAgent, storing the record whether or not its id is stored
UpdateAgent_Upserts(b, cl, ag, a, t) == [agents |-> Put(ag, a), err |-> ""]

UpdateAgent(b, cl, ag, a, t) ==
  IF b = "memory" THEN MemoryUpdateAgent(ag, a) ELSE PostgresUpdateAgent(cl, ag, a, t)

DeleteAgent(b, ag, id) ==
  IF b = "memory" THEN MemoryDeleteAgent(ag, id) ELSE PostgresDeleteAgent(ag, id)

DeleteClusterStore(b, cl, ag, id) ==
  IF b = "memory" THEN MemoryDeleteCluster(cl, ag, id) ELSE PostgresDeleteCluster(cl, ag, id)

\* GetAgent: the record, or NilAgent with an error
GetAgent(ag, id) ==
  IF id \in DOMAIN ag THEN [agent |-> ag[id], err |-> ""]
  ELSE [agent |-> NilAgent, err |-> "agent not found"]

\* GetAgent of the PostgreSQL backend when the query fails for another
\* reason than pgx.ErrNoRows (the connection, the context)
PostgresGetAgentFailure == [agent |-> NilAgent, err |-> "failed to get agent"]

\* DeleteAgent of the PostgreSQL backend when Exec fails
PostgresDeleteAgentFailure(ag) == [agents |-> ag, err |-> "failed to delete agent"]

\* The sequences over a set of ids without repetition
RECURSIVE Orders(_)
Orders(S) ==
  IF S = {} THEN {<<>>}
  ELSE UNION {{<<x>> \o o : o \in Orders(S \ {x})} : x \in S}

\* As ListAgents, without the filter
ListAgents_IgnoresFilter(b, ag, clusterID) ==
  LET ids == DOMAIN ag
      ok(o) == b = "memory" \/
               \A i \in 1..Len(o), j \in 1..Len(o) :
                  i < j => ag[o[i]].created_at >= ag[o[j]].created_at
  IN {[i \in 1..Len(o) |-> ag[o[i]]] : o \in {p \in Orders(ids) : ok(p)}}

\* ListAgents: the records whose cluster matches the filter.  The in-memory
\* backend ranges over a map (any order), PostgreSQL orders by created_at
\* DESC (ties in any order).
ListAgents(b, ag, clusterID) ==
  LET ids == {x \in DOMAIN ag : clusterID = "" \/ ag[x].cluster_id = clusterID}
      ok(o) == b = "memory" \/
               \A i \in 1..Len(o), j \in 1..Len(o) :
                  i < j => ag[o[i]].created_at >= ag[o[j]].created_at
  IN {[i \in 1..Len(o) |-> ag[o[i]]] : o \in {p \in Orders(ids) : ok(p)}}

(***************************************************************************)
(* AgentService                                                            *)
(***************************************************************************)
Response(code, msg) == [NoResp EXCEPT !.code = code, !.msg = msg]

\* The slot of a handler that has returned: the response and, where the
\* response carries one, the agent in it
Returned(op, id, agent, resp) ==
  [IdleCall EXCEPT !.op = op, !.pc = "done", !.id = id, !.agent = agent, !.resp = resp]

\* The slot of a handler that has passed its first storage call
Entered(op, id, req, agent, pc) ==
  [IdleCall EXCEPT !.op = op, !.pc = pc, !.id = id, !.req = req, !.agent = agent]

\* As validateRegisterRequest, with the two tests in the other order
validateRegisterRequest_ClusterFirst(req) ==
  IF req.cluster_id = "" THEN "cluster ID is required"
  ELSE IF req.id = "" THEN "agent ID is required"
  ELSE ""


validateRegisterRequest(req) ==
  IF req.id = "" THEN "agent ID is required"
  ELSE IF req.cluster_id = "" THEN "cluster ID is required"
  ELSE ""

\* As RegisterExisting, stamping created_at too
RegisterExisting_ResetsCreatedAt(existingAgent, req, t) ==
  [existingAgent EXCEPT !.cluster_id = req.cluster_id,
                        !.hostname = req.hostname,
                        !.ip_address = req.ip_address,
                        !.version = req.version,
                        !.status = AGENT_STATUS_ACTIVE,
                        !.last_seen = t,
                        !.created_at = t,
                        !.updated_at = t]

\* As RegisterExisting, starting hardware collection over
RegisterExisting_ResetsHardware(existingAgent, req, t) ==
  [existingAgent EXCEPT !.cluster_id = req.cluster_id,
                        !.hostname = req.hostname,
                        !.ip_address = req.ip_address,
                        !.version = req.version,
                        !.status = AGENT_STATUS_ACTIVE,
                        !.last_seen = t,
                        !.updated_at = t,
                        !.hardware_collected = FALSE,
                        !.network_interfaces = <<>>]

\* RegisterAgent, "Agent exists, update it": the fields set on the record read
RegisterExisting(existingAgent, req, t) ==
  [existingAgent EXCEPT !.cluster_id = req.cluster_id,
                        !.hostname = req.hostname,
                        !.ip_address = req.ip_address,
                        !.version = req.version,
                        !.status = AGENT_STATUS_ACTIVE,
                        !.last_seen = t,
                        !.updated_at = t]

\* As RegisterNew, without CreatedAt
RegisterNew_NoCreatedAt(req, t) ==
  [NilAgent EXCEPT !.id = req.id,
                   !.cluster_id = req.cluster_id,
                   !.hostname = req.hostname,
                   !.ip_address = req.ip_address,
                   !.version = req.version,
                   !.status = AGENT_STATUS_ACTIVE,
                   !.last_seen = t,
                   !.updated_at = t]

\* RegisterAgent, "Agent doesn't exist, create new one"
RegisterNew(req, t) ==
  [NilAgent EXCEPT !.id = req.id,
                   !.cluster_id = req.cluster_id,
                   !.hostname = req.hostname,
                   !.ip_address = req.ip_address,
                   !.version = req.version,
                   !.status = AGENT_STATUS_ACTIVE,
                   !.last_seen = t,
                   !.created_at = t,
                   !.updated_at = t]

\* As RegisterAgent_Begin, without the ClusterExists test
RegisterAgent_Begin_NoClusterCheck(c, req) ==
  /\ calls[c].pc = "idle"
  /\ LET verr == validateRegisterRequest(req) IN
       calls' = [calls EXCEPT ![c] =
         IF verr # "" THEN Returned("RegisterAgent", req.id, NilAgent, Response("InvalidArgument", verr))
         ELSE Entered("RegisterAgent", req.id, req, NilAgent, "reg_now")]
  /\ UNCHANGED <<backend, clusters, uuids, agents, now, mon>>

\* RegisterAgent up to and including ClusterExists
RegisterAgent_Begin(c, req) ==
  /\ calls[c].pc = "idle"
  /\ LET verr == validateRegisterRequest(req) IN
       calls' = [calls EXCEPT ![c] =
         IF verr # "" THEN Returned("RegisterAgent", req.id, NilAgent, Response("InvalidArgument", verr))
         ELSE IF ~ClusterExists(clusters, req.cluster_id)
         THEN Returned("RegisterAgent", req.id, NilAgent, Response("NotFound", "cluster not found"))
         ELSE Entered("RegisterAgent", req.id, req, NilAgent, "reg_now")]
  /\ UNCHANGED <<backend, clusters, uuids, agents, now, mon>>

\* now := timestamppb.Now()
RegisterAgent_Now(c) ==
  /\ calls[c].pc = "reg_now"
  /\ calls' = [calls EXCEPT ![c].now = now, ![c].pc = "reg_get"]
  /\ UNCHANGED <<backend, clusters, uuids, agents, now, mon>>

\* GetAgent and the assignments that follow it
RegisterAgent_Get(c) ==
  /\ calls[c].pc = "reg_get"
  /\ LET r == GetAgent(agents, calls[c].req.id) IN
       calls' = [calls EXCEPT ![c] =
         IF r.err = ""
         THEN [@ EXCEPT !.agent = RegisterExisting(r.agent, calls[c].req, calls[c].now), !.pc = "reg_update"]
         ELSE [@ EXCEPT !.agent = RegisterNew(calls[c].req, calls[c].now), !.pc = "reg_create"]]
  /\ UNCHANGED <<backend, clusters, uuids, agents, now, mon>>

RegisterAgent_Update(c) ==
  /\ calls[c].pc = "reg_update"
  /\ LET r == UpdateAgent(backend, clusters, agents, calls[c].agent, now) IN
       /\ agents' = r.agents
       /\ calls' = [calls EXCEPT ![c] =
            IF r.err # ""
            THEN Returned("RegisterAgent", @.id, NilAgent, Response("Internal", "failed to update agent"))
            ELSE Returned("RegisterAgent", @.id, @.agent, Response("OK", "re-registered"))]
  /\ UNCHANGED <<backend, clusters, uuids, now, mon>>

RegisterAgent_Create(c) ==
  /\ calls[c].pc = "reg_create"
  /\ LET r == CreateAgent(backend, clusters, agents, calls[c].agent) IN
       /\ agents' = r.agents
       /\ calls' = [calls EXCEPT ![c] =
            IF r.err # ""
            THEN Returned("RegisterAgent", @.id, NilAgent, Response("Internal", "failed to create agent"))
            ELSE Returned("RegisterAgent", @.id, @.agent, Response("OK", "registered"))]
  /\ UNCHANGED <<backend, clusters, uuids, now, mon>>

\* The caller takes the response; the slot is free again
Return(c) ==
  /\ calls[c].pc = "done"
  /\ calls' = [calls EXCEPT ![c] = IdleCall]
  /\ UNCHANGED <<backend, clusters, uuids, agents, now, mon>>

\* GetAgent (the RPC), r being what s.storage.GetAgent returns
GetAgent_Reply(c, id, r) ==
  /\ calls[c].pc = "idle"
  /\ calls' = [calls EXCEPT ![c] =
         IF id = "" THEN Returned("GetAgent", id, NilAgent, Response("InvalidArgument", "agent ID is required"))
         ELSE IF r.err # "" THEN Returned("GetAgent", id, NilAgent, Response("NotFound", "agent not found"))
         ELSE Returned("GetAgent", id, r.agent, Response("OK", ""))]
  /\ UNCHANGED <<backend, clusters, uuids, agents, now, mon>>

GetAgent_Call(c, id) == GetAgent_Reply(c, id, GetAgent(agents, id))

\* ListAgents (the RPC): the listing of the storage is the response
ListAgents_Call(c, clusterID) ==
  /\ calls[c].pc = "idle"
  /\ \E l \in ListAgents(backend, agents, clusterID) :
       calls' = [calls EXCEPT ![c] =
         Returned("ListAgents", clusterID, NilAgent, [Response("OK", "") EXCEPT !.agents = l])]
  /\ UNCHANGED <<backend, clusters, uuids, agents, now, mon>>

\* As UnregisterAgent_Call, answering success whether or not a record was
\* deleted
UnregisterAgent_Call_AlwaysSucceeds(c, id) ==
  /\ calls[c].pc = "idle"
  /\ LET r == DeleteAgent(backend, agents, id) IN
       IF id = ""
       THEN /\ calls' = [calls EXCEPT ![c] =
                 Returned("UnregisterAgent", id, NilAgent, Response("InvalidArgument", "agent ID is required"))]
            /\ UNCHANGED agents
       ELSE /\ agents' = r.agents
            /\ calls' = [calls EXCEPT ![c] =
                 Returned("UnregisterAgent", id, NilAgent, [Response("OK", "") EXCEPT !.success = TRUE])]
  /\ UNCHANGED <<backend, clusters, uuids, now, mon>>

\* UnregisterAgent, r being what s.storage.DeleteAgent returns
UnregisterAgent_Reply(c, id, r) ==
  /\ calls[c].pc = "idle"
  /\ IF id = ""
     THEN /\ calls' = [calls EXCEPT ![c] =
               Returned("UnregisterAgent", id, NilAgent, Response("InvalidArgument", "agent ID is required"))]
          /\ UNCHANGED agents
     ELSE /\ agents' = r.agents
          /\ calls' = [calls EXCEPT ![c] =
               IF r.err # ""
               THEN Returned("UnregisterAgent", id, NilAgent, Response("NotFound", "agent not found"))
               ELSE Returned("UnregisterAgent", id, NilAgent, [Response("OK", "") EXCEPT !.success = TRUE])]
  /\ UNCHANGED <<backend, clusters, uuids, now, mon>>

UnregisterAgent_Call(c, id) == UnregisterAgent_Reply(c, id, DeleteAgent(backend, agents, id))

\* As generateInstructions, offering hardware collection on every poll
generateInstructions_Always(agent) == <<INSTRUCTION_TYPE_COLLECT_HARDWARE>>

\* generateInstructions: the types of the instructions offered (each under a
\* fresh id)
generateInstructions(agent) ==
  IF ~agent.hardware_collected THEN <<INSTRUCTION_TYPE_COLLECT_HARDWARE>> ELSE <<>>

\* As Heartbeat, leaving the status as read
Heartbeat_KeepsStatus(agent, t) ==
  [agent EXCEPT !.last_seen = t, !.updated_at = t]

\* As Heartbeat, stamping created_at too
Heartbeat_StampsCreatedAt(agent, t) ==
  [agent EXCEPT !.last_seen = t, !.updated_at = t, !.created_at = t, !.status = AGENT_STATUS_ACTIVE]

\* As Heartbeat, asking for the hardware again
Heartbeat_ResetsHardware(agent, t) ==
  [agent EXCEPT !.last_seen = t, !.updated_at = t, !.status = AGENT_STATUS_ACTIVE,
                !.hardware_collected = FALSE]

\* GetInstructions, "Update agent's last_seen timestamp and set status to active"
Heartbeat(agent, t) ==
  [agent EXCEPT !.last_seen = t, !.updated_at = t, !.status = AGENT_STATUS_ACTIVE]

\* As GetInstructions_Begin, without the test of the empty agent id
GetInstructions_Begin_NoIdCheck(c, req) ==
  /\ calls[c].pc = "idle"
  /\ LET r == GetAgent(agents, req.agent_id) IN
       calls' = [calls EXCEPT ![c] =
         IF r.err # ""
         THEN Returned("GetInstructions", req.agent_id, NilAgent, Response("NotFound", "agent not found"))
         ELSE Entered("GetInstructions", req.agent_id, req, r.agent, "poll_now")]
  /\ UNCHANGED <<backend, clusters, uuids, agents, now, mon>>

\* GetInstructions up to and including GetAgent, r being what
\* s.storage.GetAgent returns
GetInstructions_Reply(c, req, r) ==
  /\ calls[c].pc = "idle"
  /\ calls' = [calls EXCEPT ![c] =
         IF req.agent_id = ""
         THEN Returned("GetInstructions", req.agent_id, NilAgent, Response("InvalidArgument", "agent ID is required"))
         ELSE IF r.err # ""
         THEN Returned("GetInstructions", req.agent_id, NilAgent, Response("NotFound", "agent not found"))
         ELSE Entered("GetInstructions", req.agent_id, req, r.agent, "poll_now")]
  /\ UNCHANGED <<backend, clusters, uuids, agents, now, mon>>

GetInstructions_Begin(c, req) == GetInstructions_Reply(c, req, GetAgent(agents, req.agent_id))

\* now := timestamppb.Now() and the three assignments
GetInstructions_Now(c) ==
  /\ calls[c].pc = "poll_now"
  /\ calls' = [calls EXCEPT ![c].now = now, ![c].agent = Heartbeat(@, now), ![c].pc = "poll_update"]
  /\ UNCHANGED <<backend, clusters, uuids, agents, now, mon>>

\* UpdateAgent, generateInstructions and the response
GetInstructions_Update(c) ==
  /\ calls[c].pc = "poll_update"
  /\ LET r == UpdateAgent(backend, clusters, agents, calls[c].agent, now) IN
       /\ agents' = r.agents
       /\ calls' = [calls EXCEPT ![c] =
            IF r.err # ""
            THEN Returned("GetInstructions", @.id, NilAgent, Response("Internal", "failed to update agent heartbeat"))
            ELSE Returned("GetInstructions", @.id, NilAgent,
                          [Response("OK", "") EXCEPT !.instructions = generateInstructions(calls[c].agent),
                                                     !.server_time = calls[c].now])]
  /\ UNCHANGED <<backend, clusters, uuids, now, mon>>

\* As processInstructionResult, keeping the stored interfaces when the
\* submitted list is empty
processInstructionResult_IgnoresEmpty(agent, result) ==
  CASE result.instruction_type = INSTRUCTION_TYPE_COLLECT_HARDWARE ->
         IF result.hardware_collection = Nil
         THEN [agent |-> agent, err |-> "hardware collection result is missing"]
         ELSE [agent |-> [agent EXCEPT !.network_interfaces =
                                          IF result.hardware_collection[1].network_interfaces = <<>> THEN @
                                          ELSE result.hardware_collection[1].network_interfaces,
                                       !.hardware_collected = TRUE],
               err |-> ""]
    [] result.instruction_type = INSTRUCTION_TYPE_HEALTH_CHECK ->
         IF result.health_check = Nil
         THEN [agent |-> agent, err |-> "health check result is missing"]
         ELSE [agent |-> agent, err |-> ""]
    [] OTHER -> [agent |-> agent, err |-> ""]

\* As processInstructionResult, taking a result without its payload
processInstructionResult_AcceptsNil(agent, result) ==
  CASE result.instruction_type = INSTRUCTION_TYPE_COLLECT_HARDWARE ->
         IF result.hardware_collection = Nil
         THEN [agent |-> agent, err |-> ""]
         ELSE [agent |-> [agent EXCEPT !.network_interfaces = result.hardware_collection[1].network_interfaces,
                                       !.hardware_collected = TRUE],
               err |-> ""]
    [] OTHER -> [agent |-> agent, err |-> ""]

\* As processInstructionResult, taking a hardware result for a sign of life
processInstructionResult_Revives(agent, result) ==
  CASE result.instruction_type = INSTRUCTION_TYPE_COLLECT_HARDWARE ->
         IF result.hardware_collection = Nil
         THEN [agent |-> agent, err |-> "hardware collection result is missing"]
         ELSE [agent |-> [agent EXCEPT !.network_interfaces = result.hardware_collection[1].network_interfaces,
                                       !.hardware_collected = TRUE,
                                       !.status = AGENT_STATUS_ACTIVE],
               err |-> ""]
    [] result.instruction_type = INSTRUCTION_TYPE_HEALTH_CHECK ->
         IF result.health_check = Nil
         THEN [agent |-> agent, err |-> "health check result is missing"]
         ELSE [agent |-> agent, err |-> ""]
    [] OTHER -> [agent |-> agent, err |-> ""]

\* processInstructionResult: the agent as changed, or an error
processInstructionResult(agent, result) ==
  CASE result.instruction_type = INSTRUCTION_TYPE_COLLECT_HARDWARE ->
         IF result.hardware_collection = Nil
         THEN [agent |-> agent, err |-> "hardware collection result is missing"]
         ELSE [agent |-> [agent EXCEPT !.network_interfaces = result.hardware_collection[1].network_interfaces,
                                       !.hardware_collected = TRUE],
               err |-> ""]
    [] result.instruction_type = INSTRUCTION_TYPE_HEALTH_CHECK ->
         IF result.health_check = Nil
         THEN [agent |-> agent, err |-> "health check result is missing"]
         ELSE [agent |-> agent, err |-> ""]
    [] OTHER -> [agent |-> agent, err |-> ""]

\* As SubmitInstructionResult_Begin, looking the agent up before the tests
\* of the request
SubmitInstructionResult_Begin_LookupFirst(c, req) ==
  /\ calls[c].pc = "idle"
  /\ LET r == GetAgent(agents, req.agent_id) IN
       calls' = [calls EXCEPT ![c] =
         IF r.err # ""
         THEN Returned("SubmitInstructionResult", req.agent_id, NilAgent, Response("NotFound", "agent not found"))
         ELSE IF req.instruction_id = ""
         THEN Returned("SubmitInstructionResult", req.agent_id, NilAgent, Response("InvalidArgument", "instruction ID is required"))
         ELSE IF req.result = Nil
         THEN Returned("SubmitInstructionResult", req.agent_id, NilAgent, Response("InvalidArgument", "result is required"))
         ELSE Entered("SubmitInstructionResult", req.agent_id, req, r.agent, "submit_process")]
  /\ UNCHANGED <<backend, clusters, uuids, agents, now, mon>>

\* As SubmitInstructionResult_Reply, refusing a result from an agent that has
\* not polled since it was created
SubmitInstructionResult_Reply_RequiresPoll(c, req, r) ==
  /\ calls[c].pc = "idle"
  /\ calls' = [calls EXCEPT ![c] =
         IF req.agent_id = ""
         THEN Returned("SubmitInstructionResult", req.agent_id, NilAgent, Response("InvalidArgument", "agent ID is required"))
         ELSE IF req.instruction_id = ""
         THEN Returned("SubmitInstructionResult", req.agent_id, NilAgent, Response("InvalidArgument", "instruction ID is required"))
         ELSE IF req.result = Nil
         THEN Returned("SubmitInstructionResult", req.agent_id, NilAgent, Response("InvalidArgument", "result is required"))
         ELSE IF r.err # ""
         THEN Returned("SubmitInstructionResult", req.agent_id, NilAgent, Response("NotFound", "agent not found"))
         ELSE IF r.agent.last_seen = r.agent.created_at
         THEN Returned("SubmitInstructionResult", req.agent_id, NilAgent, Response("NotFound", "instruction not found"))
         ELSE Entered("SubmitInstructionResult", req.agent_id, req, r.agent, "submit_process")]
  /\ UNCHANGED <<backend, clusters, uuids, agents, now, mon>>

\* SubmitInstructionResult up to and including GetAgent, r being what
\* s.storage.GetAgent returns
SubmitInstructionResult_Reply(c, req, r) ==
  /\ calls[c].pc = "idle"
  /\ calls' = [calls EXCEPT ![c] =
         IF req.agent_id = ""
         THEN Returned("SubmitInstructionResult", req.agent_id, NilAgent, Response("InvalidArgument", "agent ID is required"))
         ELSE IF req.instruction_id = ""
         THEN Returned("SubmitInstructionResult", req.agent_id, NilAgent, Response("InvalidArgument", "instruction ID is required"))
         ELSE IF req.result = Nil
         THEN Returned("SubmitInstructionResult", req.agent_id, NilAgent, Response("InvalidArgument", "result is required"))
         ELSE IF r.err # ""
         THEN Returned("SubmitInstructionResult", req.agent_id, NilAgent, Response("NotFound", "agent not found"))
         ELSE Entered("SubmitInstructionResult", req.agent_id, req, r.agent, "submit_process")]
  /\ UNCHANGED <<backend, clusters, uuids, agents, now, mon>>

SubmitInstructionResult_Begin(c, req) ==
  SubmitInstructionResult_Reply(c, req, GetAgent(agents, req.agent_id))

\* processInstructionResult and agent.UpdatedAt = timestamppb.Now()
SubmitInstructionResult_Process(c) ==
  /\ calls[c].pc = "submit_process"
  /\ LET r == processInstructionResult(calls[c].agent, calls[c].req.result[1]) IN
       calls' = [calls EXCEPT ![c] =
         IF r.err # ""
         THEN Returned("SubmitInstructionResult", @.id, NilAgent, Response("OK", "Failed to process result"))
         ELSE [@ EXCEPT !.agent = [r.agent EXCEPT !.updated_at = now], !.now = now, !.pc = "submit_update"]]
  /\ UNCHANGED <<backend, clusters, uuids, agents, now, mon>>

SubmitInstructionResult_Update(c) ==
  /\ calls[c].pc = "submit_update"
  /\ LET r == UpdateAgent(backend, clusters, agents, calls[c].agent, now) IN
       /\ agents' = r.agents
       /\ calls' = [calls EXCEPT ![c] =
            IF r.err # ""
            THEN Returned("SubmitInstructionResult", @.id, NilAgent, Response("Internal", "failed to update agent"))
            ELSE Returned("SubmitInstructionResult", @.id, NilAgent,
                          [Response("OK", "Result processed successfully") EXCEPT !.success = TRUE])]
  /\ UNCHANGED <<backend, clusters, uuids, now, mon>>

(***************************************************************************)
(* AgentService, the GetInstructions that carries the result of the last   *)
(* instruction (last_instruction_id, result_data)                          *)
(***************************************************************************)
\* result_data texts: not JSON; hardware collection whose data is not an
\* object; hardware collection without data; hardware collection with no
\* interface and with one; a result of another type
RD_Garbage == "{not json"
RD_HwBadData == "{\"instruction_type\":1,\"data\":\"oops\"}"
RD_HwNoData == "{\"instruction_type\":1}"
RD_HwNone == "{\"instruction_type\":1,\"data\":{\"network_interfaces\":[]}}"
RD_HwOne == "{\"instruction_type\":1,\"data\":{\"network_interfaces\":[\"mlx5_0\"]}}"
RD_Other == "{\"instruction_type\":0,\"data\":{}}"

ResultDataTexts == {"", RD_Garbage, RD_HwBadData, RD_HwNoData, RD_HwNone, RD_HwOne, RD_Other}

PollResultRequests ==
  {[agent_id |-> i, last_instruction_id |-> n, result_data |-> d] :
     i \in {"a1"}, n \in {"", "instr-1"}, d \in ResultDataTexts}

\* json.Unmarshal([]byte(resultData), &result) into InstructionResult
UnmarshalInstructionResult(text) ==
  CASE text = RD_HwBadData ->
         [err |-> "", instruction_type |-> INSTRUCTION_TYPE_COLLECT_HARDWARE, data |-> "\"oops\""]
    [] text = RD_HwNoData ->
         [err |-> "", instruction_type |-> INSTRUCTION_TYPE_COLLECT_HARDWARE, data |-> ""]
    [] text = RD_HwNone ->
         [err |-> "", instruction_type |-> INSTRUCTION_TYPE_COLLECT_HARDWARE,
          data |-> "{\"network_interfaces\":[]}"]
    [] text = RD_HwOne ->
         [err |-> "", instruction_type |-> INSTRUCTION_TYPE_COLLECT_HARDWARE,
          data |-> "{\"network_interfaces\":[\"mlx5_0\"]}"]
    [] text = RD_Other ->
         [err |-> "", instruction_type |-> INSTRUCTION_TYPE_UNSPECIFIED, data |-> "{}"]
    [] OTHER ->
         [err |-> "failed to parse instruction result", instruction_type |-> INSTRUCTION_TYPE_UNSPECIFIED,
          data |-> ""]

\* json.Unmarshal(result.Data, &hwData) into HardwareData
UnmarshalHardwareData(data) ==
  CASE data = "{\"network_interfaces\":[]}" -> [err |-> "", network_interfaces |-> <<>>]
    [] data = "{\"network_interfaces\":[\"mlx5_0\"]}" -> [err |-> "", network_interfaces |-> <<"mlx5_0">>]
    [] data = "{}" -> [err |-> "", network_interfaces |-> <<>>]
    [] OTHER -> [err |-> "failed to parse hardware data", network_interfaces |-> <<>>]

\* processInstructionResult(agent, resultData): the agent as changed, or an
\* error with the agent as it was
processResultData(agent, resultData) ==
  LET result == UnmarshalInstructionResult(resultData)
      hwData == UnmarshalHardwareData(result.data)
  IN IF result.err # "" THEN [agent |-> agent, err |-> result.err]
     ELSE IF result.instruction_type = INSTRUCTION_TYPE_COLLECT_HARDWARE
     THEN IF hwData.err # "" THEN [agent |-> agent, err |-> hwData.err]
          ELSE [agent |-> [agent EXCEPT !.network_interfaces = hwData.network_interfaces,
                                        !.hardware_collected = TRUE],
                err |-> ""]
     ELSE [agent |-> agent, err |-> ""]

\* As GetInstructions_BeginWithResult, failing the poll when the result
\* cannot be processed
GetInstructions_BeginWithResult_AbortsOnError(c, req) ==
  /\ calls[c].pc = "idle"
  /\ LET r == GetAgent(agents, req.agent_id)
         p == processResultData(r.agent, req.result_data)
         given == req.last_instruction_id # "" /\ req.result_data # ""
     IN calls' = [calls EXCEPT ![c] =
          IF req.agent_id = ""
          THEN Returned("GetInstructions", req.agent_id, NilAgent, Response("InvalidArgument", "agent ID is required"))
          ELSE IF r.err # ""
          THEN Returned("GetInstructions", req.agent_id, NilAgent, Response("NotFound", "agent not found"))
          ELSE IF given /\ p.err # ""
          THEN Returned("GetInstructions", req.agent_id, NilAgent, Response("Internal", "failed to process result"))
          ELSE Entered("GetInstructions", req.agent_id, req, IF given THEN p.agent ELSE r.agent, "poll_now")]
  /\ UNCHANGED <<backend, clusters, uuids, agents, now, mon>>

\* GetInstructions up to and including processInstructionResult, whose error
\* is logged
GetInstructions_BeginWithResult(c, req) ==
  /\ calls[c].pc = "idle"
  /\ LET r == GetAgent(agents, req.agent_id)
         p == processResultData(r.agent, req.result_data)
         given == req.last_instruction_id # "" /\ req.result_data # ""
     IN calls' = [calls EXCEPT ![c] =
          IF req.agent_id = ""
          THEN Returned("GetInstructions", req.agent_id, NilAgent, Response("InvalidArgument", "agent ID is required"))
          ELSE IF r.err # ""
          THEN Returned("GetInstructions", req.agent_id, NilAgent, Response("NotFound", "agent not found"))
          ELSE Entered("GetInstructions", req.agent_id, req, IF given THEN p.agent ELSE r.agent, "poll_now")]
  /\ UNCHANGED <<backend, clusters, uuids, agents, now, mon>>

(***************************************************************************)
(* AgentMonitor                                                            *)
(***************************************************************************)
\* The monitor goroutine: where Start or checkAgentStates stands ("new" is
\* before Start, "idle" is Start blocked in its select), the listing, the
\* loop index, the sweep's now, whether a persist of this sweep failed, the
\* number of UpdateAgent calls of this sweep, whether ticker.C holds a tick,
\* whether stopCh is closed, whether ctx is cancelled, where the loop stood
\* when Stop was called ("" before the call) and whether the call panicked
IdleMonitor ==
  [pc |-> "idle", agents |-> <<>>, i |-> 1, now |-> NoTime, failed |-> FALSE, writes |-> 0,
   tick |-> FALSE, stopped |-> FALSE, cancelled |-> FALSE, stopAt |-> "", panicked |-> FALSE]

\* checkAgentStates returns to the select of Start
EndSweep(m) ==
  [m EXCEPT !.pc = "idle", !.agents = <<>>, !.i = 1, !.now = NoTime, !.failed = FALSE, !.writes = 0]

\* The ticker fires and Start takes the tick: checkAgentStates starts with
\* ListAgents(ctx, "")
Monitor_List ==
  /\ mon.pc = "idle"
  /\ \E l \in ListAgents(backend, agents, "") :
       mon' = [mon EXCEPT !.pc = "mon_now", !.agents = l]
  /\ UNCHANGED <<backend, clusters, uuids, agents, now, calls>>

\* now := time.Now()
Monitor_Now ==
  /\ mon.pc = "mon_now"
  /\ mon' = IF Len(mon.agents) = 0 THEN EndSweep(mon)
            ELSE [mon EXCEPT !.now = now, !.pc = "mon_loop"]
  /\ UNCHANGED <<backend, clusters, uuids, agents, now, calls>>

\* As ShouldMarkInactive, with >= for >
ShouldMarkInactive_AtThreshold(agent, t) ==
  /\ agent.last_seen # NoTime
  /\ t - agent.last_seen >= inactiveThreshold
  /\ agent.status = AGENT_STATUS_ACTIVE

\* As ShouldMarkInactive, whatever the status
ShouldMarkInactive_IgnoresStatus(agent, t) ==
  /\ agent.last_seen # NoTime
  /\ t - agent.last_seen > inactiveThreshold

\* As ShouldMarkInactive, with the threshold taken twice
ShouldMarkInactive_TwiceThreshold(agent, t) ==
  /\ agent.last_seen # NoTime
  /\ t - agent.last_seen > 2 * inactiveThreshold
  /\ agent.status = AGENT_STATUS_ACTIVE

\* The test of the loop body on one listed agent
ShouldMarkInactive(agent, t) ==
  /\ agent.last_seen # NoTime
  /\ t - agent.last_seen > inactiveThreshold
  /\ agent.status = AGENT_STATUS_ACTIVE

\* agent.Status = v1.AgentStatus_AGENT_STATUS_INACTIVE
MarkInactive(agent) == [agent EXCEPT !.status = AGENT_STATUS_INACTIVE]

\* m.storage.UpdateAgent(ctx, agent) of the sweep: the pgx pool refuses a
\* statement under a cancelled context, the in-memory backend ignores ctx
MonitorUpdateAgent(b, cl, ag, a, t, cancelled) ==
  IF b = "postgres" /\ cancelled THEN [agents |-> ag, err |-> "context canceled"]
  ELSE UpdateAgent(b, cl, ag, a, t)

\* As Monitor_Check, returning from the sweep when UpdateAgent fails
Monitor_Check_StopsOnError ==
  /\ mon.pc = "mon_loop"
  /\ LET agent == mon.agents[mon.i]
         mark == ShouldMarkInactive(agent, mon.now)
         r == MonitorUpdateAgent(backend, clusters, agents, MarkInactive(agent), now, mon.cancelled)
     IN /\ agents' = IF mark THEN r.agents ELSE agents
        /\ mon' = IF mon.i = Len(mon.agents) \/ (mark /\ r.err # "") THEN EndSweep(mon)
                  ELSE [mon EXCEPT !.i = @ + 1]
  /\ UNCHANGED <<backend, clusters, uuids, now, calls>>

\* One iteration of the loop over the listing; a failed UpdateAgent is logged
\* and the loop goes on
Monitor_Check ==
  /\ mon.pc = "mon_loop"
  /\ LET agent == mon.agents[mon.i]
         mark == ShouldMarkInactive(agent, mon.now)
         r == MonitorUpdateAgent(backend, clusters, agents, MarkInactive(agent), now, mon.cancelled)
     IN /\ agents' = IF mark THEN r.agents ELSE agents
        /\ mon' = IF mon.i = Len(mon.agents) THEN EndSweep(mon)
                  ELSE [mon EXCEPT !.i = @ + 1, !.failed = @ \/ (mark /\ r.err # ""),
                                   !.writes = IF mark THEN @ + 1 ELSE @]
  /\ UNCHANGED <<backend, clusters, uuids, now, calls>>

\* time.Ticker delivers a tick into ticker.C (capacity one) while Start runs
Ticker_Fire ==
  /\ mon.pc \notin {"new", "exited"}
  /\ ~mon.tick
  /\ mon' = [mon EXCEPT !.tick = TRUE]
  /\ UNCHANGED <<backend, clusters, uuids, agents, now, calls>>

\* Stop, called once: close(m.stopCh) returns at once whatever the loop
\* does, and panics when the channel is closed already
Monitor_Stop ==
  /\ mon.stopAt = ""
  /\ mon' = [mon EXCEPT !.stopAt = mon.pc, !.stopped = TRUE, !.panicked = mon.stopped]
  /\ UNCHANGED <<backend, clusters, uuids, agents, now, calls>>

\* Server.Stop: monitorCancel() cancels the context Start was given
Monitor_Cancel ==
  /\ ~mon.cancelled
  /\ mon' = [mon EXCEPT !.cancelled = TRUE]
  /\ UNCHANGED <<backend, clusters, uuids, agents, now, calls>>

\* go s.agentMonitor.Start(s.monitorCtx): the ticker is made and Start
\* reaches its select
Monitor_Start ==
  /\ mon.pc = "new"
  /\ mon' = [mon EXCEPT !.pc = "idle"]
  /\ UNCHANGED <<backend, clusters, uuids, agents, now, calls>>

\* As Start_Return, closing stopCh on the way out
Start_Return_ClosesStopCh ==
  /\ mon.pc = "idle"
  /\ mon.stopped \/ mon.cancelled
  /\ mon' = [mon EXCEPT !.pc = "exited", !.stopped = TRUE]
  /\ UNCHANGED <<backend, clusters, uuids, agents, now, calls>>

\* select, case <-ctx.Done() or case <-m.stopCh: Start returns
Start_Return ==
  /\ mon.pc = "idle"
  /\ mon.stopped \/ mon.cancelled
  /\ mon' = [mon EXCEPT !.pc = "exited"]
  /\ UNCHANGED <<backend, clusters, uuids, agents, now, calls>>

\* select, case <-ticker.C: checkAgentStates(ctx).  select takes any of the
\* cases that are ready, so this step is enabled whenever a tick is there.
\* ListAgents fails under a cancelled context on the PostgreSQL backend and
\* checkAgentStates returns at once.
Start_Tick ==
  /\ mon.pc = "idle"
  /\ mon.tick
  /\ IF backend = "postgres" /\ mon.cancelled
     THEN mon' = [mon EXCEPT !.tick = FALSE]
     ELSE \E l \in ListAgents(backend, agents, "") :
            mon' = [mon EXCEPT !.tick = FALSE, !.pc = "mon_now", !.agents = l]
  /\ UNCHANGED <<backend, clusters, uuids, agents, now, calls>>

(***************************************************************************)
(* ClusterService, as far as agents depend on it                           *)
(***************************************************************************)
\* CreateCluster with a valid request: a fresh uuid is stored
CreateCluster(id) ==
  /\ id \notin uuids
  /\ uuids' = uuids \cup {id}
  /\ clusters' = clusters \cup {id}
  /\ UNCHANGED <<backend, agents, now, calls, mon>>

\* The longest cluster name and the MTU range that validation accepts
MaxNameLength == 255
MinMtu == 576
MaxMtu == 9000

\* Cluster names by length: none, one character, the longest accepted and one
\* character more
ClusterNames ==
  {[i \in 1..n |-> "a"] : n \in {0, 1, MaxNameLength, MaxNameLength + 1}}

\* NetworkConfig values: CIDR and gateway texts that parse, that do not, or
\* are empty; DNS server lists; MTUs around the two ends of the range
NetworkConfigs ==
  {[cidr |-> c, gateway |-> g, dns_servers |-> d, mtu |-> m] :
     c \in {"", "10.0.0.0/24", "10.0.0.0"},
     g \in {"", "10.0.0.1", "gw"},
     d \in {<<>>, <<"8.8.8.8">>, <<"8.8.8.8", "dns">>},
     m \in {MinMtu - 1, MinMtu, MaxMtu, MaxMtu + 1}}

\* CreateClusterRequest values; network_config is Nil when it is left out
CreateClusterRequests ==
  {[name |-> n, description |-> d, network_config |-> nc] :
     n \in ClusterNames, d \in {"", "Test Description"},
     nc \in {Nil} \cup {Some(x) : x \in NetworkConfigs}}

\* net.ParseCIDR succeeds on an address with a prefix length
ParseCIDR(text) == text \in {"10.0.0.0/24"}

\* net.ParseIP returns an address for dotted quads
ParseIP(text) == text \in {"10.0.0.0", "10.0.0.1", "8.8.8.8"}

\* validateNetworkConfig: the first failure, "" when there is none
validateNetworkConfig(config) ==
  IF config.cidr = "" THEN "CIDR is required"
  ELSE IF ~ParseCIDR(config.cidr) THEN "invalid CIDR format"
  ELSE IF config.gateway = "" THEN "gateway is required"
  ELSE IF ~ParseIP(config.gateway) THEN "invalid gateway IP address"
  ELSE IF \E i \in DOMAIN config.dns_servers : ~ParseIP(config.dns_servers[i])
  THEN "invalid DNS server IP address"
  ELSE IF config.mtu < MinMtu \/ config.mtu > MaxMtu THEN "MTU must be between 576 and 9000"
  ELSE ""

\* validateCreateRequest: the first failure, "" when there is none
validateCreateRequest(req) ==
  IF req.name = <<>> THEN "cluster name is required"
  ELSE IF Len(req.name) > MaxNameLength THEN "cluster name must be less than 255 characters"
  ELSE IF req.network_config = Nil THEN "network configuration is required"
  ELSE validateNetworkConfig(req.network_config[1])

\* ClusterService.CreateCluster with request req, uuid.New() giving id
CreateCluster_Call(c, req, id) ==
  /\ calls[c].pc = "idle"
  /\ LET err == validateCreateRequest(req) IN
       IF err # ""
       THEN /\ calls' = [calls EXCEPT ![c] =
                  Returned("CreateCluster", "", NilAgent, Response("InvalidArgument", err))]
            /\ UNCHANGED <<clusters, uuids>>
       ELSE /\ id \notin uuids
            /\ uuids' = uuids \cup {id}
            /\ clusters' = clusters \cup {id}
            /\ calls' = [calls EXCEPT ![c] = Returned("CreateCluster", id, NilAgent, Response("OK", ""))]
  /\ UNCHANGED <<backend, agents, now, mon>>

\* DeleteCluster of a stored cluster id
DeleteCluster(id) ==
  /\ id \in clusters
  /\ LET r == DeleteClusterStore(backend, clusters, agents, id) IN
       /\ clusters' = r.clusters
       /\ agents' = r.agents
  /\ UNCHANGED <<backend, uuids, now, calls, mon>>

(***************************************************************************)
(* The clock                                                               *)
(***************************************************************************)
Tick ==
  /\ \E t \in Instants :
        /\ t > now
        /\ \A u \in Instants : u > now => t <= u
        /\ now' = t
  /\ UNCHANGED <<backend, clusters, uuids, agents, calls, mon>>

(***************************************************************************)
(* Specifications                                                          *)
(***************************************************************************)
Init ==
  /\ backend \in Backends
  /\ clusters = {}
  /\ uuids = {}
  /\ agents = <<>>
  /\ now = 0
  /\ calls = [c \in Calls |-> IdleCall]
  /\ mon = IdleMonitor

\* A handler is entered with a request
CallBegin(c, ids) ==
  \/ \E req \in RegisterRequests : req.id \in ids \cup {""} /\ RegisterAgent_Begin(c, req)
  \/ \E id \in ids \cup {""} : GetAgent_Call(c, id)
  \/ \E id \in ids \cup {""} : UnregisterAgent_Call(c, id)
  \/ \E req \in PollRequests : req.agent_id \in ids \cup {""} /\ GetInstructions_Begin(c, req)
  \/ \E req \in SubmitRequests : req.agent_id \in ids \cup {""} /\ SubmitInstructionResult_Begin(c, req)

\* A handler goes on from one storage call to the next, and returns
CallContinue(c) ==
  \/ RegisterAgent_Now(c)
  \/ RegisterAgent_Get(c)
  \/ RegisterAgent_Update(c)
  \/ RegisterAgent_Create(c)
  \/ GetInstructions_Now(c)
  \/ GetInstructions_Update(c)
  \/ SubmitInstructionResult_Process(c)
  \/ SubmitInstructionResult_Update(c)
  \/ Return(c)

ClusterStep == \E id \in ClusterIds : CreateCluster(id) \/ DeleteCluster(id)

\* No handler and no sweep is between two of its storage calls
Quiet == mon.pc = "idle" /\ \A c \in Calls : calls[c].pc \in {"idle", "done"}

\* One operation at a time: a handler or a sweep is entered only when no
\* other is in flight; the clock and the cluster directory move at any time
Next ==
  \/ Quiet /\ CallBegin("k1", {"a1"})
  \/ CallContinue("k1")
  \/ Quiet /\ Monitor_List
  \/ Monitor_Now
  \/ Monitor_Check
  \/ ClusterStep
  \/ Tick

Spec == Init /\ [][Next]_vars

\* The registration of the caller that runs concurrently with the monitor
ConcRegisterRequests ==
  {req \in RegisterRequests : req.id = "a1" /\ req.cluster_id = "c1" /\ req.hostname = "node1"}

ConcSubmitRequests ==
  {req \in SubmitRequests :
     /\ req.agent_id = "a1" /\ req.instruction_id # "" /\ req.result # Nil
     /\ req.result[1].hardware_collection = Some([network_interfaces |-> <<"mlx5_0">>])}

\* A caller and the monitor, interleaved at every storage call, on one agent
NextConc ==
  \/ \E req \in ConcRegisterRequests : RegisterAgent_Begin("k1", req)
  \/ RegisterAgent_Now("k1")
  \/ RegisterAgent_Get("k1")
  \/ RegisterAgent_Update("k1")
  \/ RegisterAgent_Create("k1")
  \/ UnregisterAgent_Call("k1", "a1")
  \/ GetInstructions_Begin("k1", [agent_id |-> "a1"])
  \/ GetInstructions_Now("k1")
  \/ GetInstructions_Update("k1")
  \/ \E req \in ConcSubmitRequests : SubmitInstructionResult_Begin("k1", req)
  \/ SubmitInstructionResult_Process("k1")
  \/ SubmitInstructionResult_Update("k1")
  \/ Return("k1")
  \/ Monitor_List
  \/ Monitor_Now
  \/ Monitor_Check
  \/ CreateCluster("c1")
  \/ Tick

\* Interleaving is specified for the PostgreSQL backend, whose reads return
\* private copies of the row
InitConc == Init /\ backend = "postgres"

SpecConc == InitConc /\ [][NextConc]_vars

\* SpecConc with a running monitor: the ticker goes on firing and Start is
\* not stopped, so a sweep that can start does and each of its steps is
\* taken (the storage answers); time passes
SpecConcFair ==
  /\ SpecConc
  /\ WF_vars(Monitor_List)
  /\ WF_vars(Monitor_Now)
  /\ WF_vars(Monitor_Check)
  /\ WF_vars(Tick)

\* The registrations of a fleet: either agent into either cluster
FleetRegisterRequests ==
  {req \in RegisterRequests : req.id # "" /\ req.cluster_id # "" /\ req.hostname = "node1"}

\* The clock read again only after the threshold has passed
TickTo(t) ==
  /\ t > now
  /\ now' = t
  /\ UNCHANGED <<backend, clusters, uuids, agents, calls, mon>>

\* Two agents in two clusters: handlers one at a time, while UnregisterAgent
\* (one storage call), the cluster directory and the clock also move between
\* two steps of a sweep
NextFleet ==
  \/ Quiet /\ \E req \in FleetRegisterRequests : RegisterAgent_Begin("k1", req)
  \/ RegisterAgent_Now("k1")
  \/ RegisterAgent_Get("k1")
  \/ RegisterAgent_Update("k1")
  \/ RegisterAgent_Create("k1")
  \/ \E id \in AgentIds \cup {""} : UnregisterAgent_Call("k1", id)
  \/ Quiet /\ \E id \in AgentIds : GetAgent_Call("k1", id)
  \/ Quiet /\ \E clusterID \in ClusterIds \cup {""} : ListAgents_Call("k1", clusterID)
  \/ Quiet /\ \E id \in AgentIds : GetInstructions_Begin("k1", [agent_id |-> id])
  \/ GetInstructions_Now("k1")
  \/ GetInstructions_Update("k1")
  \/ Quiet /\ \E req \in ConcSubmitRequests :
       \E id \in AgentIds : SubmitInstructionResult_Begin("k1", [req EXCEPT !.agent_id = id])
  \/ SubmitInstructionResult_Process("k1")
  \/ SubmitInstructionResult_Update("k1")
  \/ Return("k1")
  \/ Quiet /\ Monitor_List
  \/ Monitor_Now
  \/ Monitor_Check
  \/ ClusterStep
  \/ TickTo(inactiveThreshold + 1)

SpecFleet == Init /\ [][NextFleet]_vars

\* The monitor loop with its ticker and its two stop signals, over one agent
NextStop ==
  \/ Quiet /\ \E req \in ConcRegisterRequests : RegisterAgent_Begin("k1", req)
  \/ RegisterAgent_Now("k1")
  \/ RegisterAgent_Get("k1")
  \/ RegisterAgent_Update("k1")
  \/ RegisterAgent_Create("k1")
  \/ Return("k1")
  \/ Monitor_Start
  \/ Ticker_Fire
  \/ Monitor_Stop
  \/ Monitor_Cancel
  \/ Start_Return
  \/ Start_Tick
  \/ Monitor_Now
  \/ Monitor_Check
  \/ CreateCluster("c1")
  \/ TickTo(inactiveThreshold + 1)

\* The monitor is constructed and not yet started
InitStop ==
  /\ backend \in Backends
  /\ clusters = {}
  /\ uuids = {}
  /\ agents = <<>>
  /\ now = 0
  /\ calls = [c \in Calls |-> IdleCall]
  /\ mon = [IdleMonitor EXCEPT !.pc = "new"]

SpecStop == InitStop /\ [][NextStop]_vars

\* SpecStop with a scheduled goroutine: Start is entered, each step of a
\* sweep is taken, and select, which chooses at random among its ready cases,
\* does not pass over a ready stop case for ever
SpecStopFair ==
  /\ SpecStop
  /\ WF_vars(Monitor_Start)
  /\ WF_vars(Monitor_Now)
  /\ WF_vars(Monitor_Check)
  /\ SF_vars(Start_Return)

\* Two callers register the same agent into a stored cluster, interleaved at
\* every storage call.  (A caller that finds the agent absent builds a record
\* of its own, so on the in-memory backend too the two work on separate
\* values until one is stored.)
NextRace ==
  \/ \E c \in Calls, req \in ConcRegisterRequests : RegisterAgent_Begin(c, req)
  \/ \E c \in Calls : RegisterAgent_Now(c)
  \/ \E c \in Calls : RegisterAgent_Get(c)
  \/ \E c \in Calls : RegisterAgent_Update(c)
  \/ \E c \in Calls : RegisterAgent_Create(c)
  \/ \E c \in Calls : Return(c)
  \/ CreateCluster("c1")
  \/ Tick

SpecRace == Init /\ [][NextRace]_vars

\* One agent whose handlers (slot k1) and sweeps are interleaved at every
\* storage call with UnregisterAgent (slot k2) and with the cluster
\* directory.  Which ids are stored changes in storage calls only, on either
\* backend.
NextDelete ==
  \/ \E req \in FleetRegisterRequests : req.id = "a1" /\ RegisterAgent_Begin("k1", req)
  \/ RegisterAgent_Now("k1")
  \/ RegisterAgent_Get("k1")
  \/ RegisterAgent_Update("k1")
  \/ RegisterAgent_Create("k1")
  \/ GetInstructions_Begin("k1", [agent_id |-> "a1"])
  \/ GetInstructions_Now("k1")
  \/ GetInstructions_Update("k1")
  \/ \E req \in ConcSubmitRequests : SubmitInstructionResult_Begin("k1", req)
  \/ SubmitInstructionResult_Process("k1")
  \/ SubmitInstructionResult_Update("k1")
  \/ UnregisterAgent_Call("k2", "a1")
  \/ \E c \in Calls : Return(c)
  \/ Monitor_List
  \/ Monitor_Now
  \/ Monitor_Check
  \/ ClusterStep
  \/ TickTo(inactiveThreshold + 1)

SpecDelete == Init /\ [][NextDelete]_vars

\* An agent that registers when the server starts and polls only later:
\* RegisterAgent at instant 0, GetInstructions after it, results submitted at
\* any time; one handler or sweep at a time, the clock moving between them.
\* Here an agent has not been polled exactly while its last_seen is 0.
NextUnpolled ==
  \/ Quiet /\ now = 0 /\ \E req \in ConcRegisterRequests : RegisterAgent_Begin("k1", req)
  \/ RegisterAgent_Now("k1")
  \/ RegisterAgent_Get("k1")
  \/ RegisterAgent_Update("k1")
  \/ RegisterAgent_Create("k1")
  \/ Quiet /\ now > 0 /\ GetInstructions_Begin("k1", [agent_id |-> "a1"])
  \/ GetInstructions_Now("k1")
  \/ GetInstructions_Update("k1")
  \/ Quiet /\ \E req \in SubmitRequests : req.agent_id = "a1" /\ SubmitInstructionResult_Begin("k1", req)
  \/ SubmitInstructionResult_Process("k1")
  \/ SubmitInstructionResult_Update("k1")
  \/ Return("k1")
  \/ Quiet /\ Monitor_List
  \/ Monitor_Now
  \/ Monitor_Check
  \/ CreateCluster("c1")
  \/ Quiet /\ Tick

SpecUnpolled == Init /\ [][NextUnpolled]_vars

\* Every stored agent was seen within the threshold of the present instant
SeenInTime == \A id \in DOMAIN agents : now - agents[id].last_seen <= inactiveThreshold

\* An agent that heartbeats in time, its handler interleaved with the sweep
\* at every storage call: a GetInstructions takes its now within the
\* threshold of the last_seen it read, and a sweep starts only while every
\* stored agent was seen within the threshold
NextInTime ==
  \/ \E req \in ConcRegisterRequests : RegisterAgent_Begin("k1", req)
  \/ RegisterAgent_Now("k1")
  \/ RegisterAgent_Get("k1")
  \/ RegisterAgent_Update("k1")
  \/ RegisterAgent_Create("k1")
  \/ GetInstructions_Begin("k1", [agent_id |-> "a1"])
  \/ now - calls["k1"].agent.last_seen <= inactiveThreshold /\ GetInstructions_Now("k1")
  \/ GetInstructions_Update("k1")
  \/ Return("k1")
  \/ SeenInTime /\ Monitor_List
  \/ Monitor_Now
  \/ Monitor_Check
  \/ CreateCluster("c1")
  \/ Tick

SpecInTime == InitConc /\ [][NextInTime]_vars

\* The four handlers whose first storage call meets a failing database
GetAgent_Fault(c, id) ==
  backend = "postgres" /\ GetAgent_Reply(c, id, PostgresGetAgentFailure)

UnregisterAgent_Fault(c, id) ==
  backend = "postgres" /\ UnregisterAgent_Reply(c, id, PostgresDeleteAgentFailure(agents))

GetInstructions_Fault(c, req) ==
  backend = "postgres" /\ GetInstructions_Reply(c, req, PostgresGetAgentFailure)

SubmitInstructionResult_Fault(c, req) ==
  backend = "postgres" /\ SubmitInstructionResult_Reply(c, req, PostgresGetAgentFailure)

\* One agent on the PostgreSQL backend, handlers one at a time, each storage
\* read or delete either answering or failing
NextFault ==
  \/ Quiet /\ \E req \in ConcRegisterRequests : RegisterAgent_Begin("k1", req)
  \/ RegisterAgent_Now("k1")
  \/ RegisterAgent_Get("k1")
  \/ RegisterAgent_Update("k1")
  \/ RegisterAgent_Create("k1")
  \/ Quiet /\ GetAgent_Call("k1", "a1")
  \/ Quiet /\ GetAgent_Fault("k1", "a1")
  \/ Quiet /\ UnregisterAgent_Call("k1", "a1")
  \/ Quiet /\ UnregisterAgent_Fault("k1", "a1")
  \/ Quiet /\ GetInstructions_Begin("k1", [agent_id |-> "a1"])
  \/ Quiet /\ GetInstructions_Fault("k1", [agent_id |-> "a1"])
  \/ GetInstructions_Now("k1")
  \/ GetInstructions_Update("k1")
  \/ Quiet /\ \E req \in ConcSubmitRequests : SubmitInstructionResult_Begin("k1", req)
  \/ Quiet /\ \E req \in ConcSubmitRequests : SubmitInstructionResult_Fault("k1", req)
  \/ SubmitInstructionResult_Process("k1")
  \/ SubmitInstructionResult_Update("k1")
  \/ Return("k1")
  \/ CreateCluster("c1")
  \/ Tick

SpecFault == InitConc /\ [][NextFault]_vars

\* Agent records handed to the storage directly: with and without an id
StoreAgents ==
  {[NilAgent EXCEPT !.id = i, !.cluster_id = "c1", !.hostname = h,
                    !.status = AGENT_STATUS_ACTIVE, !.last_seen = 0, !.created_at = 0,
                    !.updated_at = 0] :
     i \in AgentIds \cup {""}, h \in {"node1", "node2"}}

\* Storage.CreateAgent called on the in-memory backend, its error kept
Store_CreateAgent(c, a) ==
  /\ calls[c].pc = "idle"
  /\ LET r == MemoryCreateAgent(agents, a) IN
       /\ agents' = r.agents
       /\ calls' = [calls EXCEPT ![c] = Returned("Storage.CreateAgent", a.id, a, Response("", r.err))]
  /\ UNCHANGED <<backend, clusters, uuids, now, mon>>

\* Storage.UpdateAgent called on the in-memory backend, its error kept
Store_UpdateAgent(c, a) ==
  /\ calls[c].pc = "idle"
  /\ LET r == MemoryUpdateAgent(agents, a) IN
       /\ agents' = r.agents
       /\ calls' = [calls EXCEPT ![c] = Returned("Storage.UpdateAgent", a.id, a, Response("", r.err))]
  /\ UNCHANGED <<backend, clusters, uuids, now, mon>>

\* Storage.DeleteAgent called on the in-memory backend, its error kept
Store_DeleteAgent(c, id) ==
  /\ calls[c].pc = "idle"
  /\ LET r == MemoryDeleteAgent(agents, id) IN
       /\ agents' = r.agents
       /\ calls' = [calls EXCEPT ![c] = Returned("Storage.DeleteAgent", id, NilAgent, Response("", r.err))]
  /\ UNCHANGED <<backend, clusters, uuids, now, mon>>

\* The in-memory storage called directly, by two callers
NextStore ==
  \/ \E c \in Calls, a \in StoreAgents : Store_CreateAgent(c, a)
  \/ \E c \in Calls, a \in StoreAgents : Store_UpdateAgent(c, a)
  \/ \E c \in Calls, id \in AgentIds \cup {""} : Store_DeleteAgent(c, id)
  \/ \E c \in Calls : Return(c)

InitStore == Init /\ backend = "memory"

SpecStore == InitStore /\ [][NextStore]_vars

\* The cluster directory driven through ClusterService, with registrations
\* into its clusters, one handler at a time
NextCluster ==
  \/ Quiet /\ \E req \in CreateClusterRequests, id \in ClusterIds : CreateCluster_Call("k1", req, id)
  \/ \E id \in ClusterIds : DeleteCluster(id)
  \/ Quiet /\ \E req \in FleetRegisterRequests : RegisterAgent_Begin("k1", req)
  \/ RegisterAgent_Now("k1")
  \/ RegisterAgent_Get("k1")
  \/ RegisterAgent_Update("k1")
  \/ RegisterAgent_Create("k1")
  \/ Return("k1")

SpecCluster == Init /\ [][NextCluster]_vars

\* One agent polled by the GetInstructions that carries results, handlers
\* and sweeps one at a time
NextPollResult ==
  \/ Quiet /\ \E req \in ConcRegisterRequests : RegisterAgent_Begin("k1", req)
  \/ RegisterAgent_Now("k1")
  \/ RegisterAgent_Get("k1")
  \/ RegisterAgent_Update("k1")
  \/ RegisterAgent_Create("k1")
  \/ Quiet /\ \E req \in PollResultRequests : GetInstructions_BeginWithResult("k1", req)
  \/ GetInstructions_Now("k1")
  \/ GetInstructions_Update("k1")
  \/ Return("k1")
  \/ Quiet /\ Monitor_List
  \/ Monitor_Now
  \/ Monitor_Check
  \/ CreateCluster("c1")
  \/ TickTo(inactiveThreshold + 1)

SpecPollResult == Init /\ [][NextPollResult]_vars

(***************************************************************************)
(* Properties                                                              *)
(***************************************************************************)
\* The step is one iteration of the sweep's loop
SweepStep == mon.pc = "mon_loop" /\ mon' # mon

\* The step is the storage write with which handler op of slot c returns OK
WriteReturns(c, pc) ==
  /\ calls[c].pc = pc
  /\ calls'[c].pc = "done"
  /\ calls'[c].resp.code = "OK"

\* C1: a sweep iteration on a listed agent that is stored as listed and is
\* ACTIVE leaves it stored, and stores it INACTIVE exactly when the sweep's
\* now minus its last_seen exceeds 180 seconds (at 180 or less it stays
\* ACTIVE).
C1_SweepThreshold ==
  [][SweepStep =>
       LET a == mon.agents[mon.i] IN
         (a.id \in DOMAIN agents /\ agents[a.id] = a /\ a.status = AGENT_STATUS_ACTIVE) =>
           /\ a.id \in DOMAIN agents'
           /\ agents'[a.id].status \in {AGENT_STATUS_ACTIVE, AGENT_STATUS_INACTIVE}
           /\ agents'[a.id].status = AGENT_STATUS_INACTIVE <=> mon.now - a.last_seen > 180]_vars

C1_Witness ==
  /\ "a1" \in DOMAIN agents
  /\ agents["a1"].status = AGENT_STATUS_INACTIVE
  /\ now - agents["a1"].last_seen = 181
  /\ mon.pc = "idle"

\* C2: a sweep step changes a stored status only from ACTIVE to INACTIVE
\* (never away from INACTIVE or UNSPECIFIED), and a stored INACTIVE agent
\* becomes ACTIVE only in the write of a successful RegisterAgent or
\* GetInstructions.
C2_MonitorOnlyDeactivates ==
  [][\A id \in DOMAIN agents \cap DOMAIN agents' :
       /\ (SweepStep /\ agents'[id].status # agents[id].status) =>
            (agents[id].status = AGENT_STATUS_ACTIVE /\ agents'[id].status = AGENT_STATUS_INACTIVE)
       /\ (agents[id].status = AGENT_STATUS_INACTIVE /\ agents'[id].status # AGENT_STATUS_INACTIVE) =>
            /\ agents'[id].status = AGENT_STATUS_ACTIVE
            /\ \E c \in Calls :
                 /\ calls[c].id = id
                 /\ WriteReturns(c, "reg_update") \/ WriteReturns(c, "poll_update")]_vars

\* C3: when a successful GetInstructions has written an agent after the
\* sweep listed it (the listing holds an older last_seen than the poll's
\* server time, which is the stored last_seen) and the sweep then reaches
\* that agent, the agent stays ACTIVE with the poll's last_seen.
C3_NoLostUpdate ==
  [][SweepStep =>
       LET a == mon.agents[mon.i] IN
         \A c \in Calls :
           (/\ calls[c].pc = "done"
            /\ calls[c].op = "GetInstructions"
            /\ calls[c].resp.code = "OK"
            /\ calls[c].id = a.id
            /\ a.id \in DOMAIN agents
            /\ agents[a.id].last_seen = calls[c].resp.server_time
            /\ agents[a.id].status = AGENT_STATUS_ACTIVE
            /\ a.last_seen < calls[c].resp.server_time) =>
             /\ a.id \in DOMAIN agents'
             /\ agents'[a.id].status = AGENT_STATUS_ACTIVE
             /\ agents'[a.id].last_seen = calls[c].resp.server_time]_vars

\* C4: the write of a successful GetInstructions stores the polled agent
\* ACTIVE with last_seen equal to the poll's server time and updated_at
\* within the poll (not before its server time, not after the write),
\* whatever the status was.
C4_PollReactivates ==
  [][\A c \in Calls :
       WriteReturns(c, "poll_update") =>
         LET id == calls[c].id IN
           /\ id \in DOMAIN agents'
           /\ agents'[id].status = AGENT_STATUS_ACTIVE
           /\ agents'[id].last_seen = calls'[c].resp.server_time
           /\ agents'[id].last_seen = calls[c].now
           /\ agents'[id].updated_at >= calls[c].now
           /\ agents'[id].updated_at <= now]_vars

C4_Witness ==
  /\ calls["k1"].op = "GetInstructions"
  /\ calls["k1"].pc = "done"
  /\ calls["k1"].resp.code = "OK"
  /\ "a1" \in DOMAIN agents
  /\ agents["a1"].status = AGENT_STATUS_ACTIVE
  /\ agents["a1"].last_seen = calls["k1"].resp.server_time
  /\ agents["a1"].last_seen - agents["a1"].created_at > 180

C6_FirstRegistration ==
  [][\A c \in Calls :
       WriteReturns(c, "reg_create") =>
         LET req == calls[c].req IN
           /\ req.id \notin DOMAIN agents
           /\ req.id \in DOMAIN agents'
           /\ agents'[req.id] =
                [id |-> req.id, cluster_id |-> req.cluster_id, hostname |-> req.hostname,
                 ip_address |-> req.ip_address, version |-> req.version,
                 status |-> AGENT_STATUS_ACTIVE,
                 last_seen |-> calls[c].now, created_at |-> calls[c].now, updated_at |-> calls[c].now,
                 hardware_collected |-> FALSE, network_interfaces |-> <<>>]
           /\ calls[c].now # NoTime]_vars

C6_Witness ==
  /\ calls["k1"].op = "RegisterAgent"
  /\ calls["k1"].pc = "done"
  /\ calls["k1"].resp.msg = "registered"
  /\ "a1" \in DOMAIN agents
  /\ agents["a1"].created_at = 179
  /\ agents["a1"].last_seen = 179
  /\ agents["a1"].updated_at = 179

\* C7: a successful RegisterAgent whose arguments equal the stored record's
\* id, cluster_id, hostname, ip_address and version leaves one record for
\* that id, equal to the stored one except for status (ACTIVE), last_seen and
\* updated_at; created_at is the first call's.
C7_RegisterIdempotent ==
  [][\A c \in Calls :
       (/\ WriteReturns(c, "reg_update")
        /\ calls[c].id \in DOMAIN agents
        /\ agents[calls[c].id].cluster_id = calls[c].req.cluster_id
        /\ agents[calls[c].id].hostname = calls[c].req.hostname
        /\ agents[calls[c].id].ip_address = calls[c].req.ip_address
        /\ agents[calls[c].id].version = calls[c].req.version) =>
         LET id == calls[c].id IN
           /\ DOMAIN agents' = DOMAIN agents
           /\ agents'[id].created_at = agents[id].created_at
           /\ agents'[id] = [agents[id] EXCEPT !.status = AGENT_STATUS_ACTIVE,
                                               !.last_seen = agents'[id].last_seen,
                                               !.updated_at = agents'[id].updated_at]]_vars

C7_Witness ==
  /\ calls["k1"].op = "RegisterAgent"
  /\ calls["k1"].pc = "done"
  /\ calls["k1"].resp.msg = "re-registered"
  /\ "a1" \in DOMAIN agents
  /\ agents["a1"].created_at = 0
  /\ agents["a1"].last_seen > 0

\* C8: a successful re-registration, whatever its arguments, stores the
\* agent with the hardware_collected flag and the network_interfaces it had
\* right before the write, and with status ACTIVE.
C8_ReRegisterKeepsHardware ==
  [][\A c \in Calls :
       WriteReturns(c, "reg_update") =>
         LET id == calls[c].id IN
           /\ id \in DOMAIN agents /\ id \in DOMAIN agents'
           /\ agents'[id].hardware_collected = agents[id].hardware_collected
           /\ agents'[id].network_interfaces = agents[id].network_interfaces
           /\ agents'[id].status = AGENT_STATUS_ACTIVE
           /\ agents'[id].cluster_id = calls[c].req.cluster_id
           /\ agents'[id].hostname = calls[c].req.hostname]_vars

C8_Witness ==
  /\ calls["k1"].op = "RegisterAgent"
  /\ calls["k1"].pc = "done"
  /\ calls["k1"].resp.msg = "re-registered"
  /\ "a1" \in DOMAIN agents
  /\ agents["a1"].hardware_collected
  /\ agents["a1"].network_interfaces # <<>>
  /\ agents["a1"].hostname = "node2"

\* C9: RegisterAgent with a non-empty id and a non-empty cluster_id that is
\* not stored returns NotFound at once and writes nothing: the agents and
\* clusters are unchanged, and a GetAgent of an id that was absent still
\* fails.
C9_RegisterUnknownCluster ==
  [][\A c \in Calls : \A req \in RegisterRequests :
       (/\ RegisterAgent_Begin(c, req)
        /\ req.id # "" /\ req.cluster_id # ""
        /\ req.cluster_id \notin clusters) =>
         /\ calls'[c].pc = "done"
         /\ calls'[c].resp.code = "NotFound"
         /\ agents' = agents
         /\ clusters' = clusters
         /\ (req.id \notin DOMAIN agents => GetAgent(agents', req.id).err # "")]_vars

C9_Witness ==
  /\ calls["k1"].op = "RegisterAgent"
  /\ calls["k1"].pc = "done"
  /\ calls["k1"].resp.code = "NotFound"
  /\ calls["k1"].id = "a1"
  /\ "a1" \notin DOMAIN agents
  /\ clusters # {}

\* C10: RegisterAgent with an empty id or an empty cluster_id returns
\* InvalidArgument at once, with the agent id's message when the id is empty
\* (also when both are), and leaves agents and clusters unchanged.
C10_RegisterValidation ==
  [][\A c \in Calls : \A req \in RegisterRequests :
       (RegisterAgent_Begin(c, req) /\ (req.id = "" \/ req.cluster_id = "")) =>
         /\ calls'[c].pc = "done"
         /\ calls'[c].resp.code = "InvalidArgument"
         /\ calls'[c].resp.msg = IF req.id = "" THEN "agent ID is required"
                                 ELSE "cluster ID is required"
         /\ agents' = agents
         /\ clusters' = clusters]_vars

C10_Witness ==
  /\ calls["k1"].op = "RegisterAgent"
  /\ calls["k1"].pc = "done"
  /\ calls["k1"].resp.code = "InvalidArgument"
  /\ calls["k1"].resp.msg = "agent ID is required"
  /\ DOMAIN agents # {}

\* The step is one that the handler op of slot c takes
HandlerStep(c, op) ==
  /\ calls'[c] # calls[c]
  /\ calls[c].op = op \/ (calls[c].pc = "idle" /\ calls'[c].op = op)

\* C11: GetInstructions with an empty agent id returns InvalidArgument at
\* once, with an id that is not stored NotFound at once, and in both cases
\* the agents are unchanged; no step of a GetInstructions adds a record.
C11_PollUnknownAgent ==
  [][\A c \in Calls :
       /\ (calls[c].pc = "idle" /\ calls'[c].op = "GetInstructions") =>
            LET id == calls'[c].id IN
              /\ id = "" =>
                   /\ calls'[c].pc = "done"
                   /\ calls'[c].resp.code = "InvalidArgument"
                   /\ agents' = agents
              /\ (id # "" /\ id \notin DOMAIN agents) =>
                   /\ calls'[c].pc = "done"
                   /\ calls'[c].resp.code = "NotFound"
                   /\ agents' = agents
       /\ HandlerStep(c, "GetInstructions") => DOMAIN agents' \subseteq DOMAIN agents]_vars

C11_Witness ==
  /\ calls["k1"].op = "GetInstructions"
  /\ calls["k1"].pc = "done"
  /\ calls["k1"].resp.code = "NotFound"
  /\ calls["k1"].id = "a1"
  /\ "a1" \notin DOMAIN agents
  /\ clusters # {}

\* C12: the write of a successful SubmitInstructionResult of a
\* COLLECT_HARDWARE result stores the agent with hardware_collected true and
\* network_interfaces equal to the submitted list, whatever list was stored
\* and also when the submitted list is empty; when the stored record already
\* had that flag and that list, the record is as before but for updated_at.
C12_HardwareOverwrites ==
  [][\A c \in Calls :
       (/\ WriteReturns(c, "submit_update")
        /\ calls[c].req.result[1].instruction_type = INSTRUCTION_TYPE_COLLECT_HARDWARE) =>
         LET id == calls[c].id
             nics == calls[c].req.result[1].hardware_collection[1].network_interfaces
         IN /\ id \in DOMAIN agents /\ id \in DOMAIN agents'
            /\ agents'[id].hardware_collected
            /\ agents'[id].network_interfaces = nics
            /\ (agents[id].hardware_collected /\ agents[id].network_interfaces = nics) =>
                 agents'[id] = [agents[id] EXCEPT !.updated_at = agents'[id].updated_at]]_vars

C12_Witness ==
  /\ calls["k1"].op = "SubmitInstructionResult"
  /\ calls["k1"].pc = "done"
  /\ calls["k1"].resp.success
  /\ "a1" \in DOMAIN agents
  /\ agents["a1"].hardware_collected
  /\ agents["a1"].network_interfaces = <<>>
  /\ agents["a1"].updated_at > agents["a1"].last_seen

\* C13: SubmitInstructionResult with an empty agent id, an empty instruction
\* id or no result returns InvalidArgument at once, whether or not the agent
\* is stored; with all three present and the agent not stored it returns
\* NotFound at once; in each case the agents are unchanged.
C13_SubmitValidation ==
  [][\A c \in Calls :
       (calls[c].pc = "idle" /\ calls'[c].op = "SubmitInstructionResult") =>
         \A req \in SubmitRequests :
           SubmitInstructionResult_Begin(c, req) =>
             /\ (req.agent_id = "" \/ req.instruction_id = "" \/ req.result = Nil) =>
                  /\ calls'[c].pc = "done"
                  /\ calls'[c].resp.code = "InvalidArgument"
                  /\ agents' = agents
             /\ (/\ req.agent_id # "" /\ req.instruction_id # "" /\ req.result # Nil
                 /\ req.agent_id \notin DOMAIN agents) =>
                  /\ calls'[c].pc = "done"
                  /\ calls'[c].resp.code = "NotFound"
                  /\ agents' = agents]_vars

C13_Witness ==
  /\ calls["k1"].op = "SubmitInstructionResult"
  /\ calls["k1"].pc = "done"
  /\ calls["k1"].resp.code = "InvalidArgument"
  /\ calls["k1"].resp.msg = "instruction ID is required"
  /\ calls["k1"].id = "a1"
  /\ "a1" \notin DOMAIN agents

\* The result names a type whose payload it does not carry
PayloadMissing(result) ==
  \/ result.instruction_type = INSTRUCTION_TYPE_COLLECT_HARDWARE /\ result.hardware_collection = Nil
  \/ result.instruction_type = INSTRUCTION_TYPE_HEALTH_CHECK /\ result.health_check = Nil

\* C14: a SubmitInstructionResult on a stored agent whose result lacks the
\* payload of its type returns a response (no RPC error) with success false
\* right after processing, and neither that step nor the lookup before it
\* writes: the agents are unchanged.
C14_MissingPayload ==
  [][\A c \in Calls :
       /\ (/\ calls[c].pc = "submit_process"
           /\ calls'[c] # calls[c]
           /\ PayloadMissing(calls[c].req.result[1])) =>
            /\ calls'[c].pc = "done"
            /\ calls'[c].resp.code = "OK"
            /\ ~calls'[c].resp.success
            /\ agents' = agents
       /\ (/\ calls[c].pc = "idle"
           /\ calls'[c].op = "SubmitInstructionResult") => agents' = agents]_vars

C14_Witness ==
  /\ calls["k1"].op = "SubmitInstructionResult"
  /\ calls["k1"].pc = "done"
  /\ calls["k1"].resp.code = "OK"
  /\ ~calls["k1"].resp.success
  /\ calls["k1"].resp.msg = "Failed to process result"
  /\ "a1" \in DOMAIN agents
  /\ agents["a1"].updated_at < now

\* C15: a SubmitInstructionResult of an unspecified instruction type on a
\* stored agent leaves the agents unchanged in each of its steps and returns
\* success.
C15_UnknownTypeNoChange ==
  [][\A c \in Calls :
       (/\ calls[c].pc \in {"submit_process", "submit_update"}
        /\ calls'[c] # calls[c]
        /\ calls[c].req.result[1].instruction_type = INSTRUCTION_TYPE_UNSPECIFIED
        /\ calls[c].id \in DOMAIN agents) =>
         /\ agents' = agents
         /\ calls'[c].pc = "done" => (calls'[c].resp.code = "OK" /\ calls'[c].resp.success)]_vars

\* C16: UnregisterAgent with an empty id returns InvalidArgument and with an
\* id that is not stored NotFound, both leaving the agents unchanged; with a
\* stored id it returns success and removes that record and no other, every
\* other record staying as it was.  A GetAgent, GetInstructions or
\* SubmitInstructionResult that names an id that is not stored returns
\* NotFound.
C16_Unregister ==
  [][\A c \in Calls :
       /\ (calls[c].pc = "idle" /\ calls'[c].op = "UnregisterAgent") =>
            LET id == calls'[c].id IN
              /\ calls'[c].pc = "done"
              /\ id = "" => (calls'[c].resp.code = "InvalidArgument" /\ agents' = agents)
              /\ (id # "" /\ id \notin DOMAIN agents) =>
                   (calls'[c].resp.code = "NotFound" /\ agents' = agents)
              /\ id \in DOMAIN agents =>
                   /\ calls'[c].resp.code = "OK"
                   /\ calls'[c].resp.success
                   /\ DOMAIN agents' = DOMAIN agents \ {id}
                   /\ \A x \in DOMAIN agents' : agents'[x] = agents[x]
              /\ clusters' = clusters
       /\ (/\ calls[c].pc = "idle"
           /\ calls'[c].op \in {"GetAgent", "GetInstructions", "SubmitInstructionResult"}
           /\ calls'[c].id # ""
           /\ calls'[c].id \notin DOMAIN agents) =>
            /\ calls'[c].pc = "done"
            /\ calls'[c].resp.code = "NotFound"]_vars

C16_Witness ==
  /\ calls["k1"].op = "UnregisterAgent"
  /\ calls["k1"].pc = "done"
  /\ calls["k1"].resp.success
  /\ calls["k1"].id = "a1"
  /\ "a1" \notin DOMAIN agents
  /\ "a2" \in DOMAIN agents
  /\ agents["a2"].cluster_id = "c1"
  /\ "c1" \in clusters

\* C17: a step that deletes a cluster removes that cluster only and, in the
\* same step, exactly the agents whose cluster_id is its id, every other
\* agent staying as it was; DeleteCluster of an id that is not stored fails
\* and changes neither the agents nor the clusters.
C17_ClusterCascade ==
  [][/\ \A id \in ClusterIds :
          (id \in clusters /\ id \notin clusters') =>
            /\ clusters' = clusters \ {id}
            /\ DOMAIN agents' = {x \in DOMAIN agents : agents[x].cluster_id # id}
            /\ \A x \in DOMAIN agents' : agents'[x] = agents[x]
     /\ \A id \in ClusterIds \ clusters :
          LET r == DeleteClusterStore(backend, clusters, agents, id) IN
            r.err # "" /\ r.agents = agents /\ r.clusters = clusters]_vars

C17_Witness ==
  /\ "c1" \in uuids
  /\ "c1" \notin clusters
  /\ "c2" \in clusters
  /\ calls["k1"].op = "RegisterAgent"
  /\ calls["k1"].pc = "done"
  /\ calls["k1"].resp.code = "OK"
  /\ calls["k1"].id = "a1"
  /\ calls["k1"].agent.cluster_id = "c1"
  /\ "a1" \notin DOMAIN agents
  /\ "a2" \in DOMAIN agents
  /\ agents["a2"].cluster_id = "c2"

\* C18: ListAgents returns every stored agent when the filter is empty and
\* otherwise every stored agent whose cluster_id is the filter, each once
\* and as stored, and nothing else; it leaves the agents unchanged.
C18_ListExact ==
  [][\A c \in Calls :
       (calls[c].pc = "idle" /\ calls'[c].op = "ListAgents") =>
         LET filter == calls'[c].id
             l == calls'[c].resp.agents
             want == {x \in DOMAIN agents : filter = "" \/ agents[x].cluster_id = filter}
         IN /\ calls'[c].pc = "done"
            /\ calls'[c].resp.code = "OK"
            /\ {l[i] : i \in 1..Len(l)} = {agents[x] : x \in want}
            /\ Len(l) = Cardinality(want)
            /\ agents' = agents]_vars

C18_Witness ==
  /\ calls["k1"].op = "ListAgents"
  /\ calls["k1"].pc = "done"
  /\ calls["k1"].id = "c2"
  /\ Len(calls["k1"].resp.agents) = 1
  /\ calls["k1"].resp.agents[1].id = "a2"
  /\ DOMAIN agents = {"a1", "a2"}
  /\ agents["a1"].cluster_id = "c1"

\* C19: a sweep visits every agent of its listing: it ends only with the
\* last one and otherwise goes on to the next, also when the persist of the
\* one at hand fails; and after a persist of this sweep has failed, a listed
\* agent that is ACTIVE, older than the threshold and still stored is stored
\* INACTIVE by its iteration.
C19_SweepContinues ==
  [][SweepStep =>
       LET a == mon.agents[mon.i] IN
         /\ mon'.pc = "idle" => mon.i = Len(mon.agents)
         /\ mon'.pc # "idle" =>
              (mon'.pc = "mon_loop" /\ mon'.i = mon.i + 1 /\ mon'.agents = mon.agents)
         /\ (/\ mon.failed
             /\ a.status = AGENT_STATUS_ACTIVE
             /\ a.last_seen # NoTime
             /\ mon.now - a.last_seen > inactiveThreshold
             /\ a.id \in DOMAIN agents) =>
              /\ a.id \in DOMAIN agents'
              /\ agents'[a.id].status = AGENT_STATUS_INACTIVE]_vars

C19_Witness ==
  /\ mon.pc = "mon_loop"
  /\ mon.failed
  /\ mon.i = 2
  /\ mon.agents[1].id \notin DOMAIN agents
  /\ mon.agents[2].id \in DOMAIN agents
  /\ agents[mon.agents[2].id].status = AGENT_STATUS_ACTIVE
  /\ mon.now - mon.agents[2].last_seen > inactiveThreshold

\* C20: once stopCh is closed or the context is cancelled and Start is in
\* its select (no sweep in progress), Start takes no tick from the ticker:
\* no further checkAgentStates is started.
C20_NoSweepAfterStop ==
  [][((mon.stopped \/ mon.cancelled) /\ mon.pc = "idle") =>
       ~(mon.tick /\ ~mon'.tick)]_vars

\* C21: the one call of Stop can be made wherever the loop stands (not
\* started, in its select, in a sweep, exited); it closes stopCh, does not
\* panic and leaves the loop where it stood.
C21_StopOnceSafe ==
  [][/\ mon.stopAt = "" => ENABLED Monitor_Stop
     /\ (mon.stopAt = "" /\ mon'.stopAt # "") =>
          /\ ~mon'.panicked
          /\ mon'.stopped
          /\ mon'.pc = mon.pc
          /\ mon'.stopAt = mon.pc]_vars

C21_Witness ==
  /\ mon.pc = "exited"
  /\ mon.stopAt = "exited"
  /\ mon.cancelled
  /\ mon.stopped
  /\ ~mon.panicked

\* C27: while a sweep runs, the number of UpdateAgent calls it has made is
\* the number of the listed agents it has passed that are ACTIVE with a
\* last_seen more than 180 seconds before the sweep's now; and an iteration
\* on a listed agent that is INACTIVE, within the threshold or without
\* last_seen makes no call and leaves the agents unchanged.
C27_NoWriteAmplification ==
  [][SweepStep =>
       LET stale(a) == /\ a.status = AGENT_STATUS_ACTIVE
                       /\ a.last_seen # NoTime
                       /\ mon.now - a.last_seen > 180
           a == mon.agents[mon.i]
       IN /\ mon.writes = Cardinality({j \in 1..(mon.i - 1) : stale(mon.agents[j])})
          /\ ~stale(a) =>
               /\ agents' = agents
               /\ mon'.pc = "mon_loop" => mon'.writes = mon.writes
          /\ (stale(a) /\ mon'.pc = "mon_loop") => mon'.writes = mon.writes + 1]_vars

C27_Witness ==
  /\ mon.pc = "mon_loop"
  /\ mon.i = 2
  /\ mon.writes = 0
  /\ mon.agents[1].status = AGENT_STATUS_INACTIVE
  /\ mon.now - mon.agents[1].last_seen > 180
  /\ mon.agents[1].id \in DOMAIN agents
  /\ agents[mon.agents[1].id] = mon.agents[1]

\* C22: under any interleaving of RegisterAgent, GetInstructions,
\* SubmitInstructionResult and sweeps, no step lowers the stored last_seen of
\* an agent that stays stored.
C22_LastSeenMonotone ==
  [][\A id \in DOMAIN agents \cap DOMAIN agents' :
       agents'[id].last_seen >= agents[id].last_seen]_vars

OpTime ==
  IF mon.pc = "mon_loop" /\ mon' # mon THEN mon.now
  ELSE IF \E c \in Calls : calls'[c] # calls[c] /\ calls[c].now # NoTime
       THEN calls[CHOOSE c \in Calls : calls'[c] # calls[c] /\ calls[c].now # NoTime].now
       ELSE now

\* C24: a step that creates a record or changes any field of a stored one
\* leaves its updated_at at the time of that operation: not before the
\* operation read the clock and not after the write.
C24_UpdatedAtOnMutation ==
  [][\A id \in DOMAIN agents' :
       (id \notin DOMAIN agents \/ agents'[id] # agents[id]) =>
         /\ agents'[id].updated_at >= OpTime
         /\ agents'[id].updated_at <= now]_vars

\* C30: under any interleaving of GetInstructions, RegisterAgent,
\* SubmitInstructionResult and sweeps, an agent that stays stored keeps
\* hardware_collected once it is true, and its network_interfaces change
\* only in the write of a SubmitInstructionResult.
C30_HardwareMonotone ==
  [][\A id \in DOMAIN agents \cap DOMAIN agents' :
       agents[id].hardware_collected =>
         /\ agents'[id].hardware_collected
         /\ agents'[id].network_interfaces # agents[id].network_interfaces =>
              \E c \in Calls : calls[c].id = id /\ WriteReturns(c, "submit_update")]_vars

\* C25: when the first storage call of GetAgent, GetInstructions,
\* SubmitInstructionResult or UnregisterAgent fails although the agent is
\* stored (the failure is not the record's absence), the handler returns
\* Internal.
C25_StorageFailureIsInternal ==
  [][\A c \in Calls : \A id \in AgentIds :
       (/\ id \in DOMAIN agents
        /\ \/ GetAgent_Fault(c, id)
           \/ UnregisterAgent_Fault(c, id)
           \/ GetInstructions_Fault(c, [agent_id |-> id])
           \/ \E req \in ConcSubmitRequests : SubmitInstructionResult_Fault(c, req) /\ req.agent_id = id) =>
         /\ calls'[c].pc = "done"
         /\ calls'[c].resp.code = "Internal"]_vars

\* The poll carries a result that cannot be processed
Unprocessable(req) ==
  /\ req.last_instruction_id # ""
  /\ req.result_data \in {RD_Garbage, RD_HwBadData, RD_HwNoData}

\* C26: a GetInstructions on a stored agent that carries a result that
\* cannot be processed goes on to the heartbeat with the record as read; its
\* write succeeds and stores the agent ACTIVE with last_seen the poll's now
\* and with hardware_collected and network_interfaces as stored.
C26_BadResultKeepsHeartbeat ==
  [][\A c \in Calls :
       /\ (calls[c].pc = "idle" /\ calls'[c].op = "GetInstructions") =>
            \A req \in PollResultRequests :
              (/\ GetInstructions_BeginWithResult(c, req)
               /\ Unprocessable(req)
               /\ req.agent_id \in DOMAIN agents) =>
                /\ calls'[c].pc = "poll_now"
                /\ calls'[c].agent = agents[req.agent_id]
       /\ (/\ calls[c].pc = "poll_update"
           /\ calls'[c] # calls[c]
           /\ Unprocessable(calls[c].req)
           /\ calls[c].id \in DOMAIN agents) =>
            LET id == calls[c].id IN
              /\ calls'[c].pc = "done"
              /\ calls'[c].resp.code = "OK"
              /\ id \in DOMAIN agents'
              /\ agents'[id].status = AGENT_STATUS_ACTIVE
              /\ agents'[id].last_seen = calls[c].now
              /\ agents'[id].last_seen = calls'[c].resp.server_time
              /\ agents'[id].hardware_collected = agents[id].hardware_collected
              /\ agents'[id].network_interfaces = agents[id].network_interfaces]_vars

C26_Witness ==
  /\ calls["k1"].pc = "poll_update"
  /\ calls["k1"].req.result_data = RD_HwBadData
  /\ calls["k1"].req.last_instruction_id # ""
  /\ calls["k1"].agent.status = AGENT_STATUS_ACTIVE
  /\ calls["k1"].agent.last_seen = inactiveThreshold + 1
  /\ "a1" \in DOMAIN agents
  /\ agents["a1"].status = AGENT_STATUS_INACTIVE
  /\ agents["a1"].hardware_collected
  /\ agents["a1"].network_interfaces # <<>>

\* C28: CreateCluster fails with InvalidArgument, storing nothing, exactly
\* when the name is empty or longer than 255 characters; with any other name
\* it succeeds and stores a cluster under a fresh non-empty id, whatever the
\* description and whether or not a network configuration is given.
C28_CreateClusterNameOnly ==
  [][\A c \in Calls, req \in CreateClusterRequests, id \in ClusterIds :
       (CreateCluster_Call(c, req, id) /\ id \notin uuids) =>
         IF req.name = <<>> \/ Len(req.name) > MaxNameLength
         THEN /\ calls'[c].resp.code = "InvalidArgument"
              /\ clusters' = clusters
         ELSE /\ calls'[c].resp.code = "OK"
              /\ calls'[c].id # ""
              /\ calls'[c].id \notin clusters
              /\ clusters' = clusters \cup {calls'[c].id}]_vars

\* C29: on the in-memory backend, CreateAgent with an empty id or with an id
\* that is stored, and UpdateAgent and DeleteAgent with an id that is not
\* stored, return an error and leave every stored record, and the set of
\* stored ids, as they were.
C29_WrongOperationRefused ==
  [][\A c \in Calls :
       (calls[c].pc = "idle" /\ calls'[c].pc = "done") =>
         LET op == calls'[c].op
             id == calls'[c].id
             refused == calls'[c].resp.msg # "" /\ agents' = agents
         IN /\ (op = "Storage.CreateAgent" /\ (id = "" \/ id \in DOMAIN agents)) => refused
            /\ (op = "Storage.UpdateAgent" /\ id \notin DOMAIN agents) => refused
            /\ (op = "Storage.DeleteAgent" /\ id \notin DOMAIN agents) => refused]_vars

C29_Witness ==
  /\ calls["k1"].pc = "done"
  /\ calls["k1"].op = "Storage.CreateAgent"
  /\ calls["k1"].resp.msg = "agent already exists"
  /\ calls["k1"].id \in DOMAIN agents
  /\ agents[calls["k1"].id] # calls["k1"].agent
  /\ calls["k2"].pc = "done"
  /\ calls["k2"].op = "Storage.UpdateAgent"
  /\ calls["k2"].resp.msg = "agent not found"
  /\ calls["k2"].id \notin DOMAIN agents

\* The heartbeats after which the clock of the model still passes the
\* threshold
EarlyHeartbeats == {t \in Instants : \E u \in Instants : u - t > inactiveThreshold}

\* C31: with the monitor running, an agent stored ACTIVE with last_seen t
\* is eventually INACTIVE unless it is removed or its last_seen is renewed;
\* and the sweep whose now is more than 180 seconds after the last_seen of an
\* agent that is stored with the last_seen it was listed with has the agent
\* INACTIVE by the end of its iteration (stored INACTIVE, or listed INACTIVE
\* by this sweep).
C31_DetectionLiveness ==
  /\ \A t \in EarlyHeartbeats :
       ("a1" \in DOMAIN agents /\ agents["a1"].status = AGENT_STATUS_ACTIVE /\ agents["a1"].last_seen = t)
         ~> ("a1" \notin DOMAIN agents \/ agents["a1"].status = AGENT_STATUS_INACTIVE
             \/ agents["a1"].last_seen # t)
  /\ [][SweepStep =>
          LET a == mon.agents[mon.i] IN
            (/\ a.id \in DOMAIN agents
             /\ agents[a.id].last_seen = a.last_seen
             /\ mon.now - a.last_seen > inactiveThreshold) =>
               /\ a.id \in DOMAIN agents'
               /\ agents'[a.id].status = AGENT_STATUS_INACTIVE \/ a.status = AGENT_STATUS_INACTIVE]_vars

C31_Witness ==
  /\ mon.pc = "idle"
  /\ "a1" \in DOMAIN agents
  /\ agents["a1"].status = AGENT_STATUS_INACTIVE
  /\ agents["a1"].last_seen = 0
  /\ now - agents["a1"].last_seen = inactiveThreshold + 1
  /\ \A c \in Calls : calls[c].pc = "idle"

\* Once a stop signal is given, Start returns
StartReturns == (mon.stopped \/ mon.cancelled) ~> (mon.pc = "exited")

\* C32: after the context is cancelled or Stop is called, Start eventually
\* returns; it waits for no sweep but one in progress when the signal came
\* (in its select with a signal given, it starts no checkAgentStates that
\* lists the agents); and cancelling the context, which is all Server.Stop
\* does to the monitor, does not close stopCh.
C32_MonitorTerminates ==
  /\ StartReturns
  /\ [][((mon.stopped \/ mon.cancelled) /\ mon.pc = "idle") => mon'.pc # "mon_now"]_vars
  /\ [][(~mon.cancelled /\ mon'.cancelled) =>
          (mon'.stopped = mon.stopped /\ mon'.panicked = mon.panicked)]_vars

\* The fields of an agent that a heartbeat is not to touch
PollFrame ==
  {"id", "cluster_id", "hostname", "ip_address", "version", "created_at", "hardware_collected",
   "network_interfaces"}

C34_ReferentialIntegrity ==
  \A id \in DOMAIN agents : agents[id].cluster_id \in clusters

\* C35: with the cluster stored and no agent or cluster removed, every
\* RegisterAgent that reaches its write, whatever the other caller does
\* between its read and its write, returns OK, and the agent is then stored
\* once, ACTIVE.
C35_ConcurrentRegister ==
  [][\A c \in Calls :
       (calls[c].pc \in {"reg_create", "reg_update"} /\ calls'[c].pc = "done") =>
         /\ calls'[c].resp.code = "OK"
         /\ calls[c].id \in DOMAIN agents'
         /\ agents'[calls[c].id].status = AGENT_STATUS_ACTIVE]_vars

\* C36: an agent that is not stored comes to be stored only by the
\* CreateAgent of a RegisterAgent; the write of a GetInstructions or a
\* SubmitInstructionResult whose agent has been removed since it was read
\* returns Internal and stores nothing, and the sweep's iteration on a listed
\* agent that has been removed stores nothing.
C36_DeletionFinal ==
  [][/\ \A id \in AgentIds :
          (id \notin DOMAIN agents /\ id \in DOMAIN agents') =>
            \E c \in Calls : calls[c].pc = "reg_create" /\ calls[c].id = id /\ calls'[c].pc = "done"
     /\ \A c \in Calls :
          (/\ calls[c].pc \in {"poll_update", "submit_update"}
           /\ calls'[c] # calls[c]
           /\ calls[c].id \notin DOMAIN agents) =>
            /\ calls'[c].pc = "done"
            /\ calls'[c].resp.code = "Internal"
            /\ agents' = agents
     /\ (SweepStep /\ mon.agents[mon.i].id \notin DOMAIN agents) => agents' = agents]_vars

C36_Witness ==
  /\ "a1" \notin DOMAIN agents
  /\ calls["k1"].pc = "done"
  /\ calls["k1"].op = "GetInstructions"
  /\ calls["k1"].resp.code = "Internal"
  /\ calls["k2"].pc = "done"
  /\ calls["k2"].op = "UnregisterAgent"
  /\ calls["k2"].resp.code = "OK"
  /\ mon.pc = "mon_loop"
  /\ mon.agents[mon.i].id = "a1"
  /\ ShouldMarkInactive(mon.agents[mon.i], mon.now)

HardwareSubmitted(req) ==
  /\ req.instruction_id # ""
  /\ req.result # Nil
  /\ req.result[1].instruction_type = INSTRUCTION_TYPE_COLLECT_HARDWARE
  /\ req.result[1].hardware_collection # Nil

\* C38: a SubmitInstructionResult with a hardware collection result under
\* any non-empty instruction id, for a stored agent that has never polled (so
\* that no instruction was ever offered to it), is taken up, reports success
\* and stores hardware_collected = true; and the first GetInstructions of an
\* agent stored with hardware_collected = true returns no instruction.
C38_NoCorrelation ==
  [][\A c \in Calls :
       /\ (calls[c].pc = "idle" /\ calls'[c].op = "SubmitInstructionResult") =>
            \A req \in SubmitRequests :
              (/\ SubmitInstructionResult_Begin(c, req)
               /\ HardwareSubmitted(req)
               /\ req.agent_id \in DOMAIN agents
               /\ agents[req.agent_id].last_seen = 0) =>
                calls'[c].pc = "submit_process"
       /\ (/\ calls[c].pc = "submit_update"
           /\ calls'[c] # calls[c]
           /\ HardwareSubmitted(calls[c].req)
           /\ calls[c].id \in DOMAIN agents
           /\ agents[calls[c].id].last_seen = 0) =>
            /\ calls'[c].resp.code = "OK"
            /\ calls'[c].resp.success
            /\ agents'[calls[c].id].hardware_collected
            /\ agents'[calls[c].id].last_seen = 0
       /\ (/\ WriteReturns(c, "poll_update")
           /\ agents[calls[c].id].last_seen = 0
           /\ agents[calls[c].id].hardware_collected) =>
            calls'[c].resp.instructions = <<>>]_vars

C38_Witness ==
  /\ calls["k1"].pc = "done"
  /\ calls["k1"].op = "GetInstructions"
  /\ calls["k1"].resp.code = "OK"
  /\ calls["k1"].resp.instructions = <<>>
  /\ "a1" \in DOMAIN agents
  /\ agents["a1"].hardware_collected
  /\ agents["a1"].created_at = 0
  /\ agents["a1"].last_seen = calls["k1"].resp.server_time
  /\ agents["a1"].updated_at = agents["a1"].last_seen
  /\ agents["a1"].last_seen > 0

\* C39: when the agent polls in time (each heartbeat within 180 seconds of
\* the one before, and one within 180 seconds of the start of every sweep),
\* no iteration of a sweep stores INACTIVE an agent that is stored ACTIVE
\* with a last_seen within 180 seconds of the sweep's now.
C39_NoDemotionInTime ==
  [][SweepStep =>
       LET a == mon.agents[mon.i] IN
         (/\ a.id \in DOMAIN agents
          /\ agents[a.id].status = AGENT_STATUS_ACTIVE
          /\ mon.now - agents[a.id].last_seen <= inactiveThreshold) =>
            /\ a.id \in DOMAIN agents'
            /\ agents'[a.id].status = AGENT_STATUS_ACTIVE
            /\ agents'[a.id].last_seen = agents[a.id].last_seen]_vars

====
